---- MODULE Spec2Model ----
(***************************************************************************)
(* The import and synchronization engine of the action server:             *)
(* import_action_package and _add_actions_to_db of _actions_import.py,     *)
(* acting on the catalog tables action_package and action.                 *)
(*                                                                         *)
(* A table is the sequence of its rows in insertion order.  Of an Action   *)
(* row the model keeps id, action_package_id, name, enabled and docs; docs *)
(* stands for every field the enumerator supplies and the reconciler       *)
(* copies as one block (docs, file, lineno, input_schema, output_schema,   *)
(* is_consequential, managed_params_schema).                               *)
(***************************************************************************)
EXTENDS Integers, Sequences, FiniteSets, TLC

\* Bounds of the model: imports per behaviour, entries per enumeration,
\* action names, imports per behaviour when catalog writes may fail.
MaxImports == 3
MaxLen == 2
NumNames == 2
MaxImportsDb == 2
\* Lines per manifest, manifests hashed per behaviour.
MaxLines == 3
MaxHashed == 2
\* Imports per behaviour when every step of the pipeline may fail.
MaxImportsPipeline == 2
\* Directories per command.
MaxDirs == 3
\* Commands per behaviour.
MaxCommands == 2
\* CLI processes run against one datadir, and the times one of them finds
\* the mutex taken before its wait is over.
NumProcesses == 2
MaxWaits == 2

\* action_package, action: the catalog tables.
\* pre: the catalog as the last import found it.
\* last: the last import, its inputs and how it ended.
\* n_imports: the imports made so far.
\* trace: what the last import did before it reached the catalog: the inputs
\*        it read, the collaborators it called, the warnings it logged and
\*        the error it raised.
\* run: the command in progress, its directories and how it ended.
\* hashed: the manifests whose environment hash was computed.
\* mutex: the process that holds the system mutex action_server.lock of the
\*        datadir, 0 if none does.
\* process: the CLI processes run against the datadir: where each is in
\*        _make_import_migrate_or_start and how it ended.
VARIABLES action_package, action, pre, last, n_imports, trace, run, hashed,
          mutex, process

vars == <<action_package, action, pre, last, n_imports, trace, run, hashed,
          mutex, process>>

-----------------------------------------------------------------------------
\* Inputs.

\* The first n of the action names an enumerator may report.
ActionNames(n) == { <<"a", "b", "c", "d", "e">>[i] : i \in 1..n }

\* What the steps before enumeration resolve a directory to: the package
\* name, the stored directory, the environment hash and the environment.
\* d1 and d2 are two directories whose manifests declare the same name; d2 has
\* no manifest, so it gets the unmanaged hash and an empty environment.
ResolvedPackages ==
    { [name |-> "p1", directory |-> "d1", conda_hash |-> "h1", env_json |-> "env1"],
      [name |-> "p1", directory |-> "d2", conda_hash |-> "<unmanaged>", env_json |-> "{}"],
      [name |-> "p2", directory |-> "d3", conda_hash |-> "h1", env_json |-> "env1"] }

\* Whitelist specs: the empty spec and two non-empty ones (see accept_action
\* and accept_action_package).
Whitelists == {"", "wl_not_a", "wl_p2"}

SeqsUpTo(S, n) == UNION { [1..k -> S] : k \in 0..n }

\* The docs the actions defined in a directory carry.
DocsIn(directory) == IF directory = "d2" THEN "doc2" ELSE "doc1"

\* The enumerator's outputs for a directory: any list of at most MaxLen
\* entries over the names, a name possibly more than once.
ActionsListResults(names, directory) ==
    { [i \in DOMAIN l |-> [name |-> l[i], docs |-> DocsIn(directory)]] :
        l \in SeqsUpTo(names, MaxLen) }

-----------------------------------------------------------------------------
\* Collaborators.

\* _whitelist.accept_action_package, as the matcher answers for the specs of
\* Whitelists: wl_p2 accepts the package p2 only, wl_not_a every package.
accept_action_package(whitelist, package_name) ==
    CASE whitelist = "wl_p2" -> package_name = "p2"
      [] OTHER -> TRUE

\* _whitelist.accept_action: wl_not_a accepts every action but a, wl_p2 every
\* action of the package it accepts.
accept_action(whitelist, package_name, action_name) ==
    CASE whitelist = "wl_not_a" -> action_name # "a"
      [] whitelist = "wl_p2" -> package_name = "p2"
      [] OTHER -> TRUE

\* _gen_ids.gen_uuid: an id no row of the table holds.
gen_uuid(table) ==
    IF Len(table) = 0 THEN 1
    ELSE 1 + CHOOSE m \in { table[i].id : i \in DOMAIN table } :
                 \A i \in DOMAIN table : table[i].id <= m

-----------------------------------------------------------------------------
\* The database.  A write is db.insert(row) or db.update_by_id(cls, id, fields).

\* update_by_id on one row: the columns named in fields are set.
UpdatedRow(row, fields) ==
    [f \in DOMAIN row |-> IF f \in DOMAIN fields THEN fields[f] ELSE row[f]]

ApplyWrite(db, w) ==
    IF w.op = "insert"
    THEN [db EXCEPT ![w.table] = Append(@, w.row)]
    ELSE [db EXCEPT ![w.table] =
            [i \in DOMAIN @ |->
               IF @[i].id = w.id THEN UpdatedRow(@[i], w.fields) ELSE @[i]]]

RECURSIVE ApplyWrites(_, _)
ApplyWrites(db, writes) ==
    IF writes = <<>> THEN db
    ELSE ApplyWrites(ApplyWrite(db, Head(writes)), Tail(writes))

\* with db.transaction(): the writes of the block are applied in order; when
\* write number fail_at raises, the ones before it are rolled back and the
\* database is as it was when the block began.  fail_at = 0: no write raises.
Transaction(db, writes, fail_at) ==
    IF fail_at = 0 THEN ApplyWrites(db, writes) ELSE db

\* Writes made with no transaction around them: each is committed as it is
\* made, so the ones before a failing write stay.
Autocommit(db, writes, fail_at) ==
    IF fail_at = 0 THEN ApplyWrites(db, writes)
    ELSE ApplyWrites(db, SubSeq(writes, 1, fail_at - 1))

\* asdict(row) with "del ...['id']".
WithoutId(row) == [f \in DOMAIN row \ {"id"} |-> row[f]]

-----------------------------------------------------------------------------
\* _add_actions_to_db.

\* BuildActions with the action-level whitelist test left out.
BuildActionsUnfiltered(action_package_v, actions_list_result, whitelist, next_id) ==
    [i \in DOMAIN actions_list_result |->
       [id |-> next_id + i - 1,
        action_package_id |-> action_package_v.id,
        name |-> actions_list_result[i].name,
        docs |-> actions_list_result[i].docs,
        enabled |-> TRUE]]

\* The loop over actions_list_result: entries the action-level whitelist
\* rejects are skipped, every other entry becomes an Action with a fresh id,
\* owned by action_package_v.id, enabled.
RECURSIVE BuildActions(_, _, _, _)
BuildActions(action_package_v, actions_list_result, whitelist, next_id) ==
    IF actions_list_result = <<>> THEN <<>>
    ELSE LET action_fields == Head(actions_list_result)
             action_name == action_fields.name
         IN  IF whitelist # ""
                /\ ~accept_action(whitelist, action_package_v.name, action_name)
             THEN BuildActions(action_package_v, Tail(actions_list_result),
                               whitelist, next_id)
             ELSE <<[id |-> next_id,
                     action_package_id |-> action_package_v.id,
                     name |-> action_name,
                     docs |-> action_fields.docs,
                     enabled |-> TRUE]>>
                  \o BuildActions(action_package_v, Tail(actions_list_result),
                                  whitelist, next_id + 1)

\* The lookup made on a column that never matches (the fresh id, say): the
\* package is never found.
SelectActionPackageNeverFound(db, name) == SubSeq(db.action_package, 1, 0)

\* db.first(ActionPackage, "... WHERE name = ?"): the rows with that name
\* (none: KeyError).
SelectActionPackageByName(db, name) ==
    SelectSeq(db.action_package, LAMBDA r : r.name = name)

\* db.select(Action, "... WHERE action_package_id = ?").
SelectActionsOfPackage(db, action_package_id) ==
    SelectSeq(db.action, LAMBDA r : r.action_package_id = action_package_id)

\* existing_action_name_to_action: filled in row order, so of several rows
\* with one name the last one stays.
ExistingActionNameToAction(existing_actions) ==
    [n \in { existing_actions[i].name : i \in DOMAIN existing_actions } |->
       existing_actions[
         CHOOSE i \in DOMAIN existing_actions :
           /\ existing_actions[i].name = n
           /\ \A j \in DOMAIN existing_actions :
                 existing_actions[j].name = n => j <= i]]

\* The block run on KeyError: insert the package, then every action.
InsertAsNewWrites(action_package_v, actions) ==
    <<[op |-> "insert", table |-> "action_package", row |-> action_package_v]>>
    \o [i \in DOMAIN actions |->
          [op |-> "insert", table |-> "action", row |-> actions[i]]]

\* PackageUpdateWrite with "del new_action_package_as_dict['id']" left out.
PackageUpdateWriteKeepsNewId(existing_action_package, action_package_v) ==
    [op |-> "update_by_id", table |-> "action_package",
     id |-> existing_action_package.id, fields |-> action_package_v]

\* db.update_by_id(ActionPackage, existing_action_package.id,
\* new_action_package_as_dict), the dict having no id.
PackageUpdateWrite(existing_action_package, action_package_v) ==
    [op |-> "update_by_id", table |-> "action_package",
     id |-> existing_action_package.id, fields |-> WithoutId(action_package_v)]

\* ReconcileWrite with "del new_action_as_dict['id']" left out.
ReconcileWriteKeepsNewId(existing_action_package, name_to_action, action_v) ==
    LET a == [action_v EXCEPT !.action_package_id = existing_action_package.id]
    IN  IF a.name \in DOMAIN name_to_action
        THEN [op |-> "update_by_id", table |-> "action",
              id |-> name_to_action[a.name].id, fields |-> a]
        ELSE [op |-> "insert", table |-> "action", row |-> a]

\* ReconcileWrite with "action.action_package_id =
\* existing_action_package.id" left out: the action keeps the fresh package
\* id it was built with.
ReconcileWriteKeepsNewPackageId(existing_action_package, name_to_action, action_v) ==
    IF action_v.name \in DOMAIN name_to_action
    THEN [op |-> "update_by_id", table |-> "action",
          id |-> name_to_action[action_v.name].id, fields |-> WithoutId(action_v)]
    ELSE [op |-> "insert", table |-> "action", row |-> action_v]

\* ReconcileWrite with the lookup in the map forgotten: every action is
\* inserted.
ReconcileWriteAlwaysInsert(existing_action_package, name_to_action, action_v) ==
    [op |-> "insert", table |-> "action",
     row |-> [action_v EXCEPT !.action_package_id = existing_action_package.id]]

\* The body of "for action in actions" in the existing-package branch: an
\* action whose name is in the map updates that row (all fields but id), any
\* other is inserted.
ReconcileWrite(existing_action_package, name_to_action, action_v) ==
    LET a == [action_v EXCEPT !.action_package_id = existing_action_package.id]
    IN  IF a.name \in DOMAIN name_to_action
        THEN [op |-> "update_by_id", table |-> "action",
              id |-> name_to_action[a.name].id, fields |-> WithoutId(a)]
        ELSE [op |-> "insert", table |-> "action", row |-> a]

\* seen_action_ids after the loop.
SeenActionIds(name_to_action, actions) ==
    { IF actions[i].name \in DOMAIN name_to_action
      THEN name_to_action[actions[i].name].id
      ELSE actions[i].id : i \in DOMAIN actions }

\* all_actions = db.all(Action), read before the transaction.
AllActions(db) == db.action

\* "for action in all_actions: if action.id not in seen_action_ids":
\* update_by_id(Action, action.id, dict(enabled=False)).
DisableWrites(all_actions, seen_action_ids) ==
    LET not_seen == SelectSeq(all_actions, LAMBDA r : r.id \notin seen_action_ids)
    IN  [i \in DOMAIN not_seen |->
           [op |-> "update_by_id", table |-> "action", id |-> not_seen[i].id,
            fields |-> [enabled |-> FALSE]]]

\* PruneWrites with the test of disable_not_imported forgotten.
PruneWritesAlways(all_actions, seen_action_ids, disable_not_imported) ==
    DisableWrites(all_actions, seen_action_ids)

\* "if disable_not_imported:" around that loop.
PruneWrites(all_actions, seen_action_ids, disable_not_imported) ==
    IF disable_not_imported THEN DisableWrites(all_actions, seen_action_ids)
    ELSE <<>>

\* UpdateExistingWrites returning early when no action was discovered.
UpdateExistingWritesNotEmpty(db, existing_action_package, action_package_v, actions, disable_not_imported) ==
    LET existing_actions == SelectActionsOfPackage(db, existing_action_package.id)
        name_to_action == ExistingActionNameToAction(existing_actions)
    IN  IF actions = <<>> THEN <<>>
        ELSE <<PackageUpdateWrite(existing_action_package, action_package_v)>>
             \o [i \in DOMAIN actions |->
                   ReconcileWrite(existing_action_package, name_to_action, actions[i])]
             \o PruneWrites(AllActions(db), SeenActionIds(name_to_action, actions),
                            disable_not_imported)

\* The writes of the existing-package transaction, in order.
UpdateExistingWrites(db, existing_action_package, action_package_v, actions, disable_not_imported) ==
    LET existing_actions == SelectActionsOfPackage(db, existing_action_package.id)
        name_to_action == ExistingActionNameToAction(existing_actions)
    IN  <<PackageUpdateWrite(existing_action_package, action_package_v)>>
        \o [i \in DOMAIN actions |->
              ReconcileWrite(existing_action_package, name_to_action, actions[i])]
        \o PruneWrites(AllActions(db), SeenActionIds(name_to_action, actions),
                       disable_not_imported)

\* The writes _add_actions_to_db makes for a package and its filtered actions.
CatalogWrites(db, action_package_v, actions, disable_not_imported) ==
    LET found == SelectActionPackageByName(db, action_package_v.name)
    IN  IF found = <<>>
        THEN InsertAsNewWrites(action_package_v, actions)
        ELSE UpdateExistingWrites(db, Head(found), action_package_v, actions,
                                  disable_not_imported)

\* _add_actions_to_db with its writes made outside any transaction.
add_actions_to_db_no_transaction(db, action_package_v, actions, disable_not_imported, fail_at) ==
    Autocommit(db, CatalogWrites(db, action_package_v, actions, disable_not_imported),
               fail_at)

\* Both branches make all their writes inside "with db.transaction()".
add_actions_to_db(db, action_package_v, actions, disable_not_imported, fail_at) ==
    Transaction(db, CatalogWrites(db, action_package_v, actions, disable_not_imported),
                fail_at)

-----------------------------------------------------------------------------
\* Manifests.  The text of a manifest file is the sequence of its lines: a
\* comment or blank line, a "key: value" pair at top level, a "- value" item
\* at top level, or a line that is not YAML.

CommentLine == [kind |-> "comment", key |-> "", value |-> ""]
PairLine(key, value) == [kind |-> "pair", key |-> key, value |-> value]
ItemLine(value) == [kind |-> "item", key |-> "", value |-> value]
BadLine == [kind |-> "bad", key |-> "", value |-> ""]

IsCode(line) == line.kind # "comment"

\* yaml.safe_load: comments and blank lines are dropped; pairs make a dict
\* whose items keep the order of the text, items make a list, an empty
\* document is None; anything else raises.
yaml_safe_load(text) ==
    LET body == SelectSeq(text, IsCode)
        Loaded(type) == [raised |-> FALSE, type |-> type, items |-> body]
    IN  IF body = <<>> THEN Loaded("none")
        ELSE IF \A i \in DOMAIN body : body[i].kind = "pair" THEN Loaded("dict")
        ELSE IF \A i \in DOMAIN body : body[i].kind = "item" THEN Loaded("list")
        ELSE [raised |-> TRUE, type |-> "none", items |-> <<>>]

\* isinstance(contents, dict)
IsDict(contents) == ~contents.raised /\ contents.type = "dict"

\* contents.get(key) of a dict; None is the empty value.
DictGet(contents, key) ==
    IF \E i \in DOMAIN contents.items : contents.items[i].key = key
    THEN contents.items[CHOOSE i \in DOMAIN contents.items :
                            contents.items[i].key = key].value
    ELSE ""

\* The items of a dict as repr writes them: in insertion order.
RECURSIVE ReprItems(_)
ReprItems(items) ==
    IF items = <<>> THEN ""
    ELSE "'" \o Head(items).key \o "': '" \o Head(items).value \o "'"
         \o (IF Len(items) > 1 THEN ", " ELSE "") \o ReprItems(Tail(items))

\* repr(contents) of a dict.
Repr(contents) == "{" \o ReprItems(contents.items) \o "}"

\* _rcc.create_hash: a digest of the string, taken to be free of collisions.
create_hash(text) == "sha256(" \o text \o ")"

\* condahash = create_hash(repr(contents)), line 200.
CondaHash(contents) == create_hash(Repr(contents))

-----------------------------------------------------------------------------
\* The file system.  A directory given to an import is one of these paths.

NoFile == [exists |-> FALSE, text |-> <<>>]
File(text) == [exists |-> TRUE, text |-> text]

\* A path that is a directory: its base name and its three manifest files.
Dir(name, package_yaml, action_server_yaml, conda_yaml) ==
    [exists |-> TRUE, is_dir |-> TRUE, name |-> name, package_yaml |-> package_yaml,
     action_server_yaml |-> action_server_yaml, conda_yaml |-> conda_yaml]

Deps1 == PairLine("dependencies", "deps1")
Deps2 == PairLine("dependencies", "deps2")
Deps3 == PairLine("dependencies", "deps3")

\* d1, d3: package.yaml with a name.  d2: no manifest.  d4: package.yaml that
\* is not YAML.  d5: package.yaml holding a list.  d6: package.yaml without
\* dependencies.  d7: the deprecated conda.yaml only.  d8: both deprecated
\* files.  d9: package.yaml without a name.  d10: package.yaml whose
\* dependencies are empty.  d11: the deprecated action-server.yaml only,
\* and a name in it.  d12, d13, d14: package.yaml beside action-server.yaml,
\* beside conda.yaml, beside both.  d15: package.yaml whose name is empty.
FileSystem(path) ==
    CASE path = "d1" -> Dir("d1", File(<<PairLine("name", "p1"), Deps1>>), NoFile, NoFile)
      [] path = "d2" -> Dir("p1", NoFile, NoFile, NoFile)
      [] path = "d3" -> Dir("d3", File(<<CommentLine, PairLine("name", "p2"), Deps1>>),
                            NoFile, NoFile)
      [] path = "d4" -> Dir("p1", File(<<PairLine("name", "p1"), BadLine>>), NoFile, NoFile)
      [] path = "d5" -> Dir("p1", File(<<ItemLine("p1"), ItemLine("deps1")>>), NoFile, NoFile)
      [] path = "d6" -> Dir("d6", File(<<PairLine("name", "p1")>>), NoFile, NoFile)
      [] path = "d7" -> Dir("p2", NoFile, NoFile, File(<<Deps1>>))
      [] path = "d8" -> Dir("p1", NoFile, File(<<Deps2>>), File(<<Deps1>>))
      [] path = "d9" -> Dir("p2", File(<<Deps2, CommentLine>>), NoFile, NoFile)
      [] path = "d10" -> Dir("p1", File(<<PairLine("name", "p1"),
                                          PairLine("dependencies", "")>>), NoFile, NoFile)
      [] path = "d11" -> Dir("p2", NoFile, File(<<PairLine("name", "p1"), Deps2>>), NoFile)
      [] path = "d12" -> Dir("d12", File(<<PairLine("name", "p1"), Deps1>>),
                             File(<<Deps2>>), NoFile)
      [] path = "d13" -> Dir("d13", File(<<PairLine("name", "p1"), Deps1>>),
                             NoFile, File(<<Deps3>>))
      [] path = "d14" -> Dir("d14", File(<<PairLine("name", "p1"), Deps1>>),
                             File(<<Deps2>>), File(<<Deps3>>))
      [] path = "d15" -> Dir("p2", File(<<PairLine("name", ""), Deps1>>), NoFile, NoFile)
      [] path = "a_file" ->
            [exists |-> TRUE, is_dir |-> FALSE, name |-> "a_file", package_yaml |-> NoFile,
             action_server_yaml |-> NoFile, conda_yaml |-> NoFile]
      [] OTHER ->
            [exists |-> FALSE, is_dir |-> FALSE, name |-> path, package_yaml |-> NoFile,
             action_server_yaml |-> NoFile, conda_yaml |-> NoFile]

Paths == {"d1", "d2", "d3", "d4", "d5", "d6", "d7", "d8", "d9", "d10", "a_file", "nowhere"}

\* A directory for each combination of the three manifest files.
ManifestPaths == {"d1", "d2", "d7", "d8", "d11", "d12", "d13", "d14"}

\* Directories whose package.yaml declares a name other than the base name,
\* holds a list, declares no name and declares an empty one.
NamePaths == {"d3", "d5", "d9", "d15"}

\* create_conda_from_package_yaml, the format adapter: the derived conda.yaml
\* holds what package.yaml holds but its name.
create_conda_from_package_yaml(package_yaml) ==
    File(SelectSeq(package_yaml.text, LAMBDA l : ~(l.kind = "pair" /\ l.key = "name")))

\* What rcc.create_env_and_get_vars answers, an ActionResult: whether it
\* succeeded, its message, and its result ("" for None), the environment.
ActionResult(success, message, result) ==
    [success |-> success, message |-> message, result |-> result]

NoEnvInfo == ActionResult(FALSE, "unread", "")
EnvOk == ActionResult(TRUE, "", "env1")
EnvFailed == ActionResult(FALSE, "rcc: the environment could not be built", "")
EnvNoResult == ActionResult(TRUE, "", "")
EnvNoResultMessage == ActionResult(TRUE, "rcc: no environment", "")

\* The output of a version probe and of the enumerator before it is read.
NoOutput == [returncode |-> -1, parts |-> <<>>]
NoStdout == [type |-> "unread", lint_result |-> "", entries |-> <<>>]

\* An import that has just started on a path.  hook_args: the
\* actions_list_result of each call of hook_on_actions_list.
Started(path, whitelist) ==
    [path |-> path, whitelist |-> whitelist, status |-> "running", raised |-> "",
     message |-> "", name |-> "", package_yaml_exists |-> FALSE, manifest |-> "",
     conda_yaml |-> NoFile, condahash |-> "", env_json |-> "", frozen |-> "unread",
     provision |-> NoEnvInfo, primary |-> NoOutput, deprecated |-> NoOutput, v |-> <<>>,
     exit_code |-> -1, stdout |-> NoStdout, stderr |-> "", hook |-> "unread",
     hook_args |-> <<>>, calls |-> <<>>, warnings |-> <<>>]

\* raise: the import ends with an error of this class.
Raise(t, class, message) ==
    [t EXCEPT !.status = "raised", !.raised = class, !.message = message]

\* A collaborator is called, a warning is logged.
Call(t, callee) == [t EXCEPT !.calls = Append(@, callee)]
Warn(t, warning) == [t EXCEPT !.warnings = Append(@, warning)]

\* ResolveName without the package-level whitelist.
ResolveNameNoWhitelist(path, whitelist) ==
    LET import_path == FileSystem(path)
        t == Started(path, whitelist)
        package_yaml_contents == yaml_safe_load(import_path.package_yaml.text)
        n == IF IsDict(package_yaml_contents)
             THEN DictGet(package_yaml_contents, "name") ELSE ""
        action_package_name == IF import_path.package_yaml.exists /\ n # ""
                               THEN n ELSE import_path.name
        named == [t EXCEPT !.name = action_package_name,
                           !.package_yaml_exists = import_path.package_yaml.exists,
                           !.manifest = IF import_path.package_yaml.exists
                                        THEN "package.yaml" ELSE "",
                           !.conda_yaml = IF import_path.package_yaml.exists
                                          THEN create_conda_from_package_yaml(
                                                   import_path.package_yaml)
                                          ELSE NoFile,
                           !.calls = IF import_path.package_yaml.exists
                                     THEN <<"create_conda_from_package_yaml">>
                                     ELSE <<>>]
    IN  IF ~import_path.exists
        THEN Raise(t, "ActionPackageError", "directory does not exist")
        ELSE IF ~import_path.is_dir
        THEN Raise(t, "ActionPackageError", "expected to be a directory")
        ELSE IF import_path.package_yaml.exists /\ package_yaml_contents.raised
        THEN Raise(t, "ActionPackageError", "Error loading file as yaml")
        ELSE named

\* ResolveName applying the package-level whitelist to the base name of the
\* directory.
ResolveNameWhitelistFirst(path, whitelist) ==
    LET import_path == FileSystem(path)
        t == Started(path, whitelist)
        package_yaml_contents == yaml_safe_load(import_path.package_yaml.text)
        n == IF IsDict(package_yaml_contents)
             THEN DictGet(package_yaml_contents, "name") ELSE ""
        action_package_name == IF import_path.package_yaml.exists /\ n # ""
                               THEN n ELSE import_path.name
        named == [t EXCEPT !.name = action_package_name,
                           !.package_yaml_exists = import_path.package_yaml.exists,
                           !.manifest = IF import_path.package_yaml.exists
                                        THEN "package.yaml" ELSE "",
                           !.conda_yaml = IF import_path.package_yaml.exists
                                          THEN create_conda_from_package_yaml(
                                                   import_path.package_yaml)
                                          ELSE NoFile,
                           !.calls = IF import_path.package_yaml.exists
                                     THEN <<"create_conda_from_package_yaml">>
                                     ELSE <<>>]
    IN  IF ~import_path.exists
        THEN Raise(t, "ActionPackageError", "directory does not exist")
        ELSE IF ~import_path.is_dir
        THEN Raise(t, "ActionPackageError", "expected to be a directory")
        ELSE IF import_path.package_yaml.exists /\ package_yaml_contents.raised
        THEN Raise(t, "ActionPackageError", "Error loading file as yaml")
        ELSE IF whitelist # "" /\ ~accept_action_package(whitelist, import_path.name)
        THEN [named EXCEPT !.status = "skipped"]
        ELSE named

\* Lines 108-154: the directory is checked, package.yaml read for the name,
\* the conda.yaml derived from it, and the package-level whitelist applied.
ResolveName(path, whitelist) ==
    LET import_path == FileSystem(path)
        t == Started(path, whitelist)
        package_yaml_contents == yaml_safe_load(import_path.package_yaml.text)
        n == IF IsDict(package_yaml_contents)
             THEN DictGet(package_yaml_contents, "name") ELSE ""
        action_package_name == IF import_path.package_yaml.exists /\ n # ""
                               THEN n ELSE import_path.name
        named == [t EXCEPT !.name = action_package_name,
                           !.package_yaml_exists = import_path.package_yaml.exists,
                           !.manifest = IF import_path.package_yaml.exists
                                        THEN "package.yaml" ELSE "",
                           !.conda_yaml = IF import_path.package_yaml.exists
                                          THEN create_conda_from_package_yaml(
                                                   import_path.package_yaml)
                                          ELSE NoFile,
                           !.calls = IF import_path.package_yaml.exists
                                     THEN <<"create_conda_from_package_yaml">>
                                     ELSE <<>>]
    IN  IF ~import_path.exists
        THEN Raise(t, "ActionPackageError", "directory does not exist")
        ELSE IF ~import_path.is_dir
        THEN Raise(t, "ActionPackageError", "expected to be a directory")
        ELSE IF import_path.package_yaml.exists /\ package_yaml_contents.raised
        THEN Raise(t, "ActionPackageError", "Error loading file as yaml")
        ELSE IF whitelist # "" /\ ~accept_action_package(whitelist, action_package_name)
        THEN [named EXCEPT !.status = "skipped"]
        ELSE named

\* SelectManifest looking for conda.yaml before action-server.yaml.
SelectManifestCondaFirst(t, frozen) ==
    LET import_path == FileSystem(t.path)
    IN  IF t.status # "running" \/ t.package_yaml_exists THEN t
        ELSE IF import_path.conda_yaml.exists
        THEN Warn([t EXCEPT !.manifest = "conda.yaml",
                            !.conda_yaml = import_path.conda_yaml],
                  "_log_deprecated_conda")
        ELSE IF import_path.action_server_yaml.exists
        THEN Warn([t EXCEPT !.manifest = "action-server.yaml",
                            !.conda_yaml = import_path.action_server_yaml],
                  "_log_deprecated_conda")
        ELSE IF frozen = "frozen"
        THEN Raise([t EXCEPT !.frozen = frozen], "ActionServerValidationError",
                   "no package.yaml is available")
        ELSE [t EXCEPT !.frozen = frozen, !.condahash = "<unmanaged>", !.env_json = "{}"]

\* SelectManifest without the test of is_frozen().
SelectManifestNotFrozen(t, frozen) ==
    LET import_path == FileSystem(t.path)
    IN  IF t.status # "running" \/ t.package_yaml_exists THEN t
        ELSE IF import_path.action_server_yaml.exists
        THEN Warn([t EXCEPT !.manifest = "action-server.yaml",
                            !.conda_yaml = import_path.action_server_yaml],
                  "_log_deprecated_conda")
        ELSE IF import_path.conda_yaml.exists
        THEN Warn([t EXCEPT !.manifest = "conda.yaml",
                            !.conda_yaml = import_path.conda_yaml],
                  "_log_deprecated_conda")
        ELSE [t EXCEPT !.frozen = frozen, !.condahash = "<unmanaged>", !.env_json = "{}"]

\* Lines 156-180: without package.yaml the deprecated file names are tried,
\* action-server.yaml before conda.yaml; without any manifest a frozen
\* (standalone) action server refuses and any other goes on unmanaged.
SelectManifest(t, frozen) ==
    LET import_path == FileSystem(t.path)
    IN  IF t.status # "running" \/ t.package_yaml_exists THEN t
        ELSE IF import_path.action_server_yaml.exists
        THEN Warn([t EXCEPT !.manifest = "action-server.yaml",
                            !.conda_yaml = import_path.action_server_yaml],
                  "_log_deprecated_conda")
        ELSE IF import_path.conda_yaml.exists
        THEN Warn([t EXCEPT !.manifest = "conda.yaml",
                            !.conda_yaml = import_path.conda_yaml],
                  "_log_deprecated_conda")
        ELSE IF frozen = "frozen"
        THEN Raise([t EXCEPT !.frozen = frozen], "ActionServerValidationError",
                   "no package.yaml is available")
        ELSE [t EXCEPT !.frozen = frozen, !.condahash = "<unmanaged>", !.env_json = "{}"]

\* is_frozen() is read when no manifest exists.
ReadsFrozen(t) ==
    LET import_path == FileSystem(t.path)
    IN  /\ t.status = "running"
        /\ ~t.package_yaml_exists
        /\ ~import_path.action_server_yaml.exists
        /\ ~import_path.conda_yaml.exists

\* Lines 182-200: the manifest is loaded and checked, and its hash computed.
LoadAndHash(text) ==
    LET contents == yaml_safe_load(text)
    IN  IF contents.raised
        THEN [text |-> text, raised |-> "ActionPackageError",
              message |-> "does not seem a valid yaml", condahash |-> ""]
        ELSE IF ~IsDict(contents)
        THEN [text |-> text, raised |-> "ActionPackageError",
              message |-> "has no dict as top-level", condahash |-> ""]
        ELSE IF DictGet(contents, "dependencies") = ""
        THEN [text |-> text, raised |-> "ActionPackageError",
              message |-> "has no 'dependencies' specified", condahash |-> ""]
        ELSE [text |-> text, raised |-> "", message |-> "",
              condahash |-> CondaHash(contents)]

\* rcc.create_env_and_get_vars is called when a manifest was loaded.
CallsProvisioner(t) ==
    t.status = "running" /\ t.manifest # "" /\ LoadAndHash(t.conda_yaml.text).raised = ""

\* Lines 181-218: the managed environment.  env_info is what
\* rcc.create_env_and_get_vars answers.
Provision(t, env_info) ==
    LET loaded == LoadAndHash(t.conda_yaml.text)
        called == Call([t EXCEPT !.condahash = loaded.condahash, !.provision = env_info],
                       "create_env_and_get_vars")
    IN  IF t.status # "running" \/ t.manifest = "" THEN t
        ELSE IF loaded.raised # "" THEN Raise(t, loaded.raised, loaded.message)
        ELSE IF ~env_info.success
        THEN Raise(called, "ActionPackageError",
                   "It was not possible to bootstrap the RCC environment. Error: "
                       \o env_info.message)
        ELSE IF env_info.result = ""
        THEN Raise(called, "ActionPackageError",
                   "It was not possible to get the environment when bootstrapping RCC environment.")
        ELSE [called EXCEPT !.env_json = env_info.result]

\* int(x) and str(n) of the numbers versions are made of.
Numerals == <<"0", "1", "2", "3", "4", "5", "6", "7", "8", "9">>
IsNumeral(x) == \E n \in DOMAIN Numerals : Numerals[n] = x
IntOf(x) == (CHOOSE n \in DOMAIN Numerals : Numerals[n] = x) - 1
StrOf(n) == Numerals[n + 1]

\* ".".join(str(x) for x in v)
RECURSIVE VersionStr(_)
VersionStr(v) ==
    IF v = <<>> THEN ""
    ELSE StrOf(Head(v)) \o (IF Len(v) > 1 THEN "." ELSE "") \o VersionStr(Tail(v))

\* _get_actions_version: the probe's output is its return code and the
\* parts of the printed version between the dots; a failed subprocess or a
\* part that is no integer raises RuntimeError.
get_actions_version(output) ==
    IF output.returncode # 0 \/ \E i \in DOMAIN output.parts : ~IsNumeral(output.parts[i])
    THEN [raised |-> TRUE, v |-> <<>>]
    ELSE [raised |-> FALSE, v |-> [i \in DOMAIN output.parts |-> IntOf(output.parts[i])]]

\* v <= w in place of v < w.
RECURSIVE TupleLessOrEqual(_, _)
TupleLessOrEqual(v, w) ==
    IF v = <<>> THEN TRUE
    ELSE IF w = <<>> THEN FALSE
    ELSE IF Head(v) # Head(w) THEN Head(v) < Head(w)
    ELSE TupleLessOrEqual(Tail(v), Tail(w))

\* v < w of two tuples of integers: the first differing element decides, a
\* proper prefix is smaller.
RECURSIVE TupleLess(_, _)
TupleLess(v, w) ==
    IF w = <<>> THEN FALSE
    ELSE IF v = <<>> THEN TRUE
    ELSE IF Head(v) # Head(w) THEN Head(v) < Head(w)
    ELSE TupleLess(Tail(v), Tail(w))

expected_version == <<0, 0, 7>>
min_version_for_encryption_with_auth_tag == <<0, 2, 1>>

\* The msg of _get_actions_version, the message of the RuntimeError of a probe
\* of libname.
UnableToGetVersion(libname) == "Unable to get " \o libname \o " version"

\* VersionGate letting the error of the second probe out when both fail.
VersionGateRaisesLast(t, primary, deprecated) ==
    LET t1 == Call([t EXCEPT !.primary = primary], "version sema4ai.actions")
        t2 == Call([t1 EXCEPT !.deprecated = deprecated], "version robocorp.actions")
        v == get_actions_version(deprecated).v
        t3 == Warn([t2 EXCEPT !.v = v], "'robocorp.actions' is deprecated")
    IN  IF t.status # "running" THEN t
        ELSE IF ~get_actions_version(primary).raised
        THEN [t1 EXCEPT !.v = get_actions_version(primary).v]
        ELSE IF get_actions_version(deprecated).raised
        THEN Raise(t2, "RuntimeError", UnableToGetVersion("robocorp.actions"))
        ELSE IF TupleLess(v, expected_version)
        THEN Raise(t3, "ActionServerValidationError",
                   IF t.manifest # ""
                   THEN "Expected robocorp-actions version to be "
                            \o VersionStr(expected_version) \o " or higher"
                   ELSE "Expected it to be " \o VersionStr(expected_version)
                            \o " or higher")
        ELSE IF TupleLess(v, min_version_for_encryption_with_auth_tag)
        THEN Warn(t3, "To receive encrypted secrets, robocorp-actions 0.2.1 or newer is required")
        ELSE t3

\* VersionGate refusing a version below
\* min_version_for_encryption_with_auth_tag as it does one below
\* expected_version.
VersionGateSoftRefuses(t, primary, deprecated) ==
    LET t1 == Call([t EXCEPT !.primary = primary], "version sema4ai.actions")
        t2 == Call([t1 EXCEPT !.deprecated = deprecated], "version robocorp.actions")
        v == get_actions_version(deprecated).v
        t3 == Warn([t2 EXCEPT !.v = v], "'robocorp.actions' is deprecated")
    IN  IF t.status # "running" THEN t
        ELSE IF ~get_actions_version(primary).raised
        THEN [t1 EXCEPT !.v = get_actions_version(primary).v]
        ELSE IF get_actions_version(deprecated).raised
        THEN Raise(t2, "RuntimeError", UnableToGetVersion("sema4ai.actions"))
        ELSE IF TupleLess(v, expected_version)
        THEN Raise(t3, "ActionServerValidationError",
                   IF t.manifest # ""
                   THEN "Expected robocorp-actions version to be "
                            \o VersionStr(expected_version) \o " or higher"
                   ELSE "Expected it to be " \o VersionStr(expected_version)
                            \o " or higher")
        ELSE IF TupleLess(v, min_version_for_encryption_with_auth_tag)
        THEN Raise(t3, "ActionServerValidationError",
                   "To receive encrypted secrets, robocorp-actions 0.2.1 or newer is required")
        ELSE t3

\* Lines 247-301: sema4ai.actions is probed; only if that fails robocorp.actions
\* is, and then its version is held against expected_version.  If both fail
\* the bare raise of line 271 raises the error of the first probe again.
VersionGate(t, primary, deprecated) ==
    LET t1 == Call([t EXCEPT !.primary = primary], "version sema4ai.actions")
        t2 == Call([t1 EXCEPT !.deprecated = deprecated], "version robocorp.actions")
        v == get_actions_version(deprecated).v
        t3 == Warn([t2 EXCEPT !.v = v], "'robocorp.actions' is deprecated")
    IN  IF t.status # "running" THEN t
        ELSE IF ~get_actions_version(primary).raised
        THEN [t1 EXCEPT !.v = get_actions_version(primary).v]
        ELSE IF get_actions_version(deprecated).raised
        THEN Raise(t2, "RuntimeError", UnableToGetVersion("sema4ai.actions"))
        ELSE IF TupleLess(v, expected_version)
        THEN Raise(t3, "ActionServerValidationError",
                   IF t.manifest # ""
                   THEN "Expected robocorp-actions version to be "
                            \o VersionStr(expected_version) \o " or higher"
                   ELSE "Expected it to be " \o VersionStr(expected_version)
                            \o " or higher")
        ELSE IF TupleLess(v, min_version_for_encryption_with_auth_tag)
        THEN Warn(t3, "To receive encrypted secrets, robocorp-actions 0.2.1 or newer is required")
        ELSE t3

\* robocorp.actions is probed when the probe of sema4ai.actions failed.
ProbesDeprecated(t, primary) ==
    t.status = "running" /\ get_actions_version(primary).raised

\* What the enumerator subprocess left: its exit code, its stdout (what kind
\* of text it is, the lint_result and the entries it carries) and its stderr.
Listed(returncode, type, lint_result, entries, stderr) ==
    [returncode |-> returncode,
     stdout |-> [type |-> type, lint_result |-> lint_result, entries |-> entries],
     stderr |-> stderr]

NoListed == Listed(-1, "unread", "", <<>>, "")

\* json.loads(stdout): text that is no JSON raises; else the value is an
\* array, an object or a number.
json_loads(stdout) ==
    [raised |-> stdout.type = "invalid", value |-> stdout]

\* sema4ai.actions format_lint_results: a message when the lint_result holds
\* errors, None when it holds none.
format_lint_results(lint_result) ==
    IF lint_result = "errors"
    THEN [is_none |-> FALSE, message |-> "lint: errors found"]
    ELSE [is_none |-> TRUE, message |-> ""]

\* isinstance(lint_result, dict): the lint_result is a dict with or without
\* errors, not some other value and not missing.
LintResultIsDict(lint_result) == lint_result \in {"errors", "clean"}

\* ListFailure without the look for a lint_result in stdout.
ListFailureNoLint(t, listed) ==
    Raise(t, "RuntimeError", "It was not possible to list the actions")

\* ListFailure looking for a lint_result whatever the exit code.
ListFailureAnyCode(t, listed) ==
    LET loaded_from_stdout == json_loads(listed.stdout)
        lint_result == loaded_from_stdout.value.lint_result
        formatted_lint_result == format_lint_results(lint_result)
    IN  IF /\ ~loaded_from_stdout.raised
           /\ loaded_from_stdout.value.type = "object"
           /\ LintResultIsDict(lint_result)
           /\ ~formatted_lint_result.is_none
        THEN Raise(t, "ActionServerValidationError", formatted_lint_result.message)
        ELSE Raise(t, "RuntimeError", "It was not possible to list the actions")

\* Lines 399-425: the enumerator ended with a non-zero exit code.
ListFailure(t, listed) ==
    LET loaded_from_stdout == json_loads(listed.stdout)
        lint_result == loaded_from_stdout.value.lint_result
        formatted_lint_result == format_lint_results(lint_result)
    IN  IF /\ listed.returncode = 1
           /\ ~loaded_from_stdout.raised
           /\ loaded_from_stdout.value.type = "object"
           /\ LintResultIsDict(lint_result)
           /\ ~formatted_lint_result.is_none
        THEN Raise(t, "ActionServerValidationError", formatted_lint_result.message)
        ELSE Raise(t, "RuntimeError", "It was not possible to list the actions")

\* Lines 449-485: the keys read of entry i, in the order they are read: the
\* name, and for an entry the whitelist accepts the fields of the Action.
MissingKey(t, entry) ==
    IF "name" \notin DOMAIN entry THEN "name"
    ELSE IF t.whitelist # "" /\ ~accept_action(t.whitelist, t.name, entry.name) THEN ""
    ELSE IF "docs" \notin DOMAIN entry THEN "docs"
    ELSE ""

\* The first entry whose read raises KeyError, 0 if none does.
FirstKeyError(t, entries) ==
    IF \E i \in DOMAIN entries : MissingKey(t, entries[i]) # ""
    THEN CHOOSE i \in DOMAIN entries :
            /\ MissingKey(t, entries[i]) # ""
            /\ \A j \in 1..(i - 1) : MissingKey(t, entries[j]) = ""
    ELSE 0

\* The hook is called once the enumerator's stdout was loaded as a list.
CallsHook(t, listed) ==
    /\ t.status = "running"
    /\ listed.returncode = 0
    /\ ~json_loads(listed.stdout).raised
    /\ listed.stdout.type = "array"

\* Enumerate with a hook whose exceptions are logged and not raised.
EnumerateSwallowsHook(t, listed, hook) ==
    LET t1 == Call([t EXCEPT !.exit_code = listed.returncode, !.stdout = listed.stdout,
                             !.stderr = listed.stderr], "actions list")
        t2 == IF listed.stderr # "" THEN Warn(t1, "stderr of actions list") ELSE t1
        t3 == Call([t2 EXCEPT !.hook = hook,
                              !.hook_args = Append(@, listed.stdout.entries)],
                   "hook_on_actions_list")
        key_error == FirstKeyError(t, listed.stdout.entries)
    IN  IF t.status # "running" THEN t
        ELSE IF listed.returncode # 0 THEN ListFailure(t1, listed)
        ELSE IF json_loads(listed.stdout).raised
        THEN Raise(t2, "RuntimeError", "It was not possible to load as json")
        ELSE IF listed.stdout.type # "array"
        THEN Raise(t2, "RuntimeError", "Expected sema4ai.actions list to provide a list")
        ELSE IF key_error # 0
        THEN Raise(t3, "KeyError", MissingKey(t, listed.stdout.entries[key_error]))
        ELSE t3

\* Lines 350-485: the enumerator is run and its output read, the hook
\* called, and the actions built.  hook: whether a registered callback
\* raises.
Enumerate(t, listed, hook) ==
    LET t1 == Call([t EXCEPT !.exit_code = listed.returncode, !.stdout = listed.stdout,
                             !.stderr = listed.stderr], "actions list")
        t2 == IF listed.stderr # "" THEN Warn(t1, "stderr of actions list") ELSE t1
        t3 == Call([t2 EXCEPT !.hook = hook,
                              !.hook_args = Append(@, listed.stdout.entries)],
                   "hook_on_actions_list")
        key_error == FirstKeyError(t, listed.stdout.entries)
    IN  IF t.status # "running" THEN t
        ELSE IF listed.returncode # 0 THEN ListFailure(t1, listed)
        ELSE IF json_loads(listed.stdout).raised
        THEN Raise(t2, "RuntimeError", "It was not possible to load as json")
        ELSE IF listed.stdout.type # "array"
        THEN Raise(t2, "RuntimeError", "Expected sema4ai.actions list to provide a list")
        ELSE IF hook = "raises"
        THEN Raise(t3, "HookError", "raised by a callback of hook_on_actions_list")
        ELSE IF key_error # 0
        THEN Raise(t3, "KeyError", MissingKey(t, listed.stdout.entries[key_error]))
        ELSE t3

-----------------------------------------------------------------------------
\* import_action_package.

Db == [action_package |-> action_package, action |-> action]

NoImport ==
    [outcome |-> "none",
     action_package |-> [id |-> 0, name |-> "", directory |-> "",
                         conda_hash |-> "", env_json |-> ""],
     actions_list_result |-> <<>>, whitelist |-> "",
     disable_not_imported |-> FALSE, fail_at |-> 0]

\* One call of import_action_package, from the resolved package on: the
\* package-level whitelist, the ActionPackage with its fresh id, the
\* enumeration and _add_actions_to_db.  fail_at: the catalog write that
\* raises (0: none).
import_action_package(resolved, actions_list_result, whitelist, disable_not_imported, fail_at) ==
    LET action_package_v ==
            [id |-> gen_uuid(action_package), name |-> resolved.name,
             directory |-> resolved.directory, conda_hash |-> resolved.conda_hash,
             env_json |-> resolved.env_json]
        actions == BuildActions(action_package_v, actions_list_result, whitelist,
                                gen_uuid(action))
        after == add_actions_to_db(Db, action_package_v, actions,
                                   disable_not_imported, fail_at)
        n_writes == Len(CatalogWrites(Db, action_package_v, actions,
                                      disable_not_imported))
    IN  /\ n_imports' = n_imports + 1
        /\ pre' = Db
        /\ IF whitelist # "" /\ ~accept_action_package(whitelist, resolved.name)
           THEN /\ fail_at = 0
                /\ UNCHANGED <<action_package, action>>
                /\ last' = [NoImport EXCEPT !.outcome = "skipped",
                                            !.action_package = action_package_v,
                                            !.whitelist = whitelist]
           ELSE /\ fail_at = 0 \/ fail_at <= n_writes
                /\ action_package' = after.action_package
                /\ action' = after.action
                /\ last' = [outcome |-> IF fail_at = 0 THEN "committed" ELSE "db_error",
                            action_package |-> action_package_v,
                            actions_list_result |-> actions_list_result,
                            whitelist |-> whitelist,
                            disable_not_imported |-> disable_not_imported,
                            fail_at |-> fail_at]

\* The imports of a run: any resolved package, any enumeration over the
\* names, any of the whitelists, pruning on or off, any failing write up to
\* max_fail_at.
Imports(names, whitelists, max_imports, max_fail_at) ==
    \E resolved \in ResolvedPackages, whitelist \in whitelists,
       disable_not_imported \in BOOLEAN :
        \E actions_list_result \in ActionsListResults(names, resolved.directory),
           fail_at \in 0..max_fail_at :
            /\ n_imports < max_imports
            /\ import_action_package(resolved, actions_list_result, whitelist,
                                     disable_not_imported, fail_at)
            /\ UNCHANGED <<trace, run, hashed, mutex, process>>

\* No pipeline has run: nothing read, nothing called, nothing raised.
NoTrace == [Started("", "") EXCEPT !.status = "none"]

\* No command has run.  number: the commands given so far; found: the
\* catalog as the command found it; outcomes: how each import of the command
\* ended; accepted: the package and the action names each import of the
\* command handed to the catalog.
NoRun ==
    [number |-> 0, found |-> [action_package |-> <<>>, action |-> <<>>],
     command |-> "", actions_sync |-> FALSE, dir |-> <<>>, whitelist |-> "",
     disable_not_imported |-> FALSE, imported |-> 0, outcomes |-> <<>>,
     accepted |-> <<>>, state |-> "idle", code |-> 0, raised |-> ""]

\* The CLI processes, and one that was not launched yet.  acquired: it got
\* the mutex; releases: its calls of release_mutex; db_opened: it entered
\* use_db_ctx; code, raised: what _make_import_migrate_or_start returned or
\* raised.
Pids == 1..NumProcesses

NoProcess ==
    [pc |-> "idle", command |-> "", waits |-> 0, acquired |-> FALSE, releases |-> 0,
     db_opened |-> FALSE, code |-> -1, raised |-> ""]

Init ==
    /\ mutex = 0
    /\ process = [p \in Pids |-> NoProcess]
    /\ action_package = <<>>
    /\ action = <<>>
    /\ pre = [action_package |-> <<>>, action |-> <<>>]
    /\ last = NoImport
    /\ n_imports = 0
    /\ trace = NoTrace
    /\ run = NoRun
    /\ hashed = {}

\* Imports whose catalog writes all succeed.
Next == Imports(ActionNames(NumNames), Whitelists, MaxImports, 0)

Spec == Init /\ [][Next]_vars

\* The same with one more action name and the empty whitelist only.
NextWide == Imports(ActionNames(NumNames + 1), {""}, MaxImports, 0)

SpecWide == Init /\ [][NextWide]_vars

\* Imports in which any one catalog write may raise.
NextDb ==
    Imports(ActionNames(NumNames), Whitelists, MaxImportsDb,
            1 + MaxLen + MaxImportsDb * MaxLen)

SpecDb == Init /\ [][NextDb]_vars

-----------------------------------------------------------------------------
\* The whole of import_action_package.

\* The enumerator's outputs for a directory: exit code 0 with a list of at
\* most MaxLen entries, each entry well formed or, if malformed is asked for,
\* lacking its name or its docs; and the given other outputs (failures).
Entries(names, directory, malformed) ==
    { [name |-> n, docs |-> DocsIn(directory)] : n \in names }
        \cup (IF malformed
              THEN {[name |-> "a"], [docs |-> DocsIn(directory)]}
              ELSE {})

EnumeratorOutputs(inputs, directory) ==
    { Listed(0, "array", "", entries, stderr) :
        entries \in SeqsUpTo(Entries(inputs.names, directory, inputs.malformed), MaxLen),
        stderr \in inputs.stderrs }
        \cup inputs.failures

\* Finish with the actions built and written one entry at a time: the
\* entries before the one that raises KeyError are committed.
FinishPartial(t, disable_not_imported) ==
    IF t.status = "raised" /\ t.raised # "KeyError"
    THEN /\ n_imports' = n_imports + 1
         /\ pre' = Db
         /\ UNCHANGED <<action_package, action>>
         /\ last' = [NoImport EXCEPT !.outcome = "raised", !.whitelist = t.whitelist,
                                     !.disable_not_imported = disable_not_imported]
         /\ trace' = t
    ELSE /\ import_action_package(
                [name |-> t.name, directory |-> t.path, conda_hash |-> t.condahash,
                 env_json |-> t.env_json],
                IF t.status = "raised"
                THEN SubSeq(t.stdout.entries, 1, FirstKeyError(t, t.stdout.entries) - 1)
                ELSE t.stdout.entries,
                t.whitelist, disable_not_imported, 0)
         /\ trace' = IF t.status = "running"
                     THEN Call([t EXCEPT !.status = "returned"], "get_db")
                     ELSE IF t.status = "raised" THEN Call(t, "get_db")
                     ELSE t

\* How import_action_package ends: by an error, which leaves the catalog as
\* it was, or as the steps from the whitelist and the enumeration on make it;
\* _add_actions_to_db opens the catalog (get_db, line 487) once the actions
\* are built.
Finish(t, disable_not_imported) ==
    IF t.status = "raised"
    THEN /\ n_imports' = n_imports + 1
         /\ pre' = Db
         /\ UNCHANGED <<action_package, action>>
         /\ last' = [NoImport EXCEPT !.outcome = "raised", !.whitelist = t.whitelist,
                                     !.disable_not_imported = disable_not_imported]
         /\ trace' = t
    ELSE /\ import_action_package(
                [name |-> t.name, directory |-> t.path, conda_hash |-> t.condahash,
                 env_json |-> t.env_json],
                t.stdout.entries, t.whitelist, disable_not_imported, 0)
         /\ trace' = IF t.status = "skipped" THEN t
                     ELSE Call([t EXCEPT !.status = "returned"], "get_db")

\* One call of import_action_package on a path: each collaborator answers
\* with one of the given inputs when, and only when, the import reaches it.
ImportDirectory(inputs, path, whitelist, disable_not_imported) ==
    \E resolved \in {ResolveName(path, whitelist)} :
    \E frozen \in (IF ReadsFrozen(resolved) THEN inputs.frozen ELSE {"unread"}) :
    \E selected \in {SelectManifest(resolved, frozen)} :
    \E env_info \in (IF CallsProvisioner(selected) THEN inputs.provisions
                     ELSE {NoEnvInfo}) :
    \E provisioned \in {Provision(selected, env_info)} :
    \E primary \in (IF provisioned.status = "running" THEN inputs.primary
                    ELSE {NoOutput}) :
    \E deprecated \in (IF ProbesDeprecated(provisioned, primary)
                       THEN inputs.deprecated ELSE {NoOutput}) :
    \E gated \in {VersionGate(provisioned, primary, deprecated)} :
    \E listed \in (IF gated.status = "running" THEN EnumeratorOutputs(inputs, path)
                   ELSE {NoListed}) :
    \E hook \in (IF CallsHook(gated, listed) THEN inputs.hooks ELSE {"unread"}) :
    \E enumerated \in {Enumerate(gated, listed, hook)} :
        Finish(enumerated, disable_not_imported)

\* The output of a version probe: the version printed, or a failed subprocess.
Printed(parts) == [returncode |-> 0, parts |-> parts]
ProbeFailed == [returncode |-> 1, parts |-> <<>>]

\* The inputs of an import that goes through without error or warning.
SetupInputs ==
    [names |-> ActionNames(NumNames), malformed |-> FALSE, stderrs |-> {""},
     failures |-> {}, paths |-> {"d1", "d3"}, whitelists |-> {""},
     frozen |-> {"not_frozen"}, provisions |-> {EnvOk},
     primary |-> {Printed(<<"1", "0", "0">>)}, deprecated |-> {ProbeFailed},
     hooks |-> {"ok"}, prunes |-> {FALSE}]

\* The inputs of any import.
PipelineInputs ==
    [names |-> ActionNames(NumNames), malformed |-> TRUE, stderrs |-> {""},
     failures |->
        { Listed(1, type, lint_result, <<>>, "an error") :
            type \in {"invalid", "object", "array", "number"},
            lint_result \in {"", "errors", "clean", "not_dict"} }
        \cup { Listed(2, "object", "errors", <<>>, "an error"),
               Listed(2, "invalid", "", <<>>, "an error"),
               Listed(0, "invalid", "", <<>>, ""),
               Listed(0, "object", "errors", <<>>, ""),
               Listed(0, "number", "", <<>>, ""),
               Listed(0, "array", "", <<>>, "a warning") },
     paths |-> Paths, whitelists |-> Whitelists,
     frozen |-> {"frozen", "not_frozen"}, provisions |-> {EnvOk, EnvFailed, EnvNoResult, EnvNoResultMessage},
     primary |-> {Printed(<<"0", "0", "6">>), ProbeFailed},
     deprecated |->
        {Printed(<<"0", "0", "6">>), Printed(<<"0", "0", "7">>), Printed(<<"0", "2", "0">>),
         Printed(<<"0", "2", "1">>), Printed(<<"0", "0">>), Printed(<<"0", "0", "7rc1">>),
         ProbeFailed},
     hooks |-> {"ok"}, prunes |-> BOOLEAN]

\* The imports of a run, each of any path with any inputs.
ImportDirectories(inputs) ==
    \E path \in inputs.paths, whitelist \in inputs.whitelists,
       disable_not_imported \in inputs.prunes :
        /\ ImportDirectory(inputs, path, whitelist, disable_not_imported)
        /\ UNCHANGED <<run, hashed, mutex, process>>

\* A first import that goes through, then an import of any kind.
NextPipeline ==
    \/ /\ n_imports = 0
       /\ ImportDirectories(SetupInputs)
    \/ /\ n_imports \in 1..(MaxImportsPipeline - 1)
       /\ ImportDirectories(PipelineInputs)

SpecPipeline == Init /\ [][NextPipeline]_vars

\* The inputs of an import in which a callback registered on
\* hook_on_actions_list may raise.
HookInputs ==
    [PipelineInputs EXCEPT !.paths = {"d1", "d2", "d3"}, !.provisions = {EnvOk},
                           !.primary = {Printed(<<"1", "0", "0">>)},
                           !.hooks = {"ok", "raises"}]

\* A first import that goes through, then an import with any hook.
NextHook ==
    \/ /\ n_imports = 0
       /\ ImportDirectories(SetupInputs)
    \/ /\ n_imports \in 1..(MaxImportsPipeline - 1)
       /\ ImportDirectories(HookInputs)

SpecHook == Init /\ [][NextHook]_vars

\* The inputs of an import of a directory with any of the manifest files.
ManifestInputs ==
    [PipelineInputs EXCEPT !.paths = ManifestPaths \cup NamePaths, !.malformed = FALSE,
                           !.failures = {}, !.provisions = {EnvOk, EnvFailed},
                           !.primary = {Printed(<<"1", "0", "0">>)}]

\* A first import that goes through, then an import of any of these
\* directories.
NextManifests ==
    \/ /\ n_imports = 0
       /\ ImportDirectories(SetupInputs)
    \/ /\ n_imports \in 1..(MaxImportsPipeline - 1)
       /\ ImportDirectories(ManifestInputs)

SpecManifests == Init /\ [][NextManifests]_vars

-----------------------------------------------------------------------------
\* The commands import and start, and the batch driver _import_actions.

\* "except ActionServerValidationError": the classes this handler catches.
\* ActionPackageError, the package-import error, is another kind of error.
IsActionServerValidationError(class) == class = "ActionServerValidationError"

\* os.path.abspath(action_package_dir): "." is the current directory.
Cwd == "d1"
Abspath(action_package_dir) == IF action_package_dir = "." THEN Cwd ELSE action_package_dir

\* Main with import pruning as start does.
MainImportPrunes(command, actions_sync, dir, whitelist) ==
    [NoRun EXCEPT !.command = command, !.actions_sync = actions_sync,
                  !.whitelist = whitelist,
                  !.dir = IF (command = "import" \/ actions_sync) /\ dir = <<>>
                          THEN <<".">> ELSE dir,
                  !.disable_not_imported = actions_sync,
                  !.state = IF command = "import" \/ actions_sync THEN "importing"
                            ELSE "serving"]

\* _make_import_migrate_or_start, lines 705-730: import imports with
\* disable_not_imported=False; start imports, with
\* disable_not_imported=actions_sync, only if actions_sync, and else starts
\* the server at once.
Main(command, actions_sync, dir, whitelist) ==
    [NoRun EXCEPT !.command = command, !.actions_sync = actions_sync,
                  !.whitelist = whitelist,
                  !.dir = IF (command = "import" \/ actions_sync) /\ dir = <<>>
                          THEN <<".">> ELSE dir,
                  !.disable_not_imported = IF command = "import" THEN FALSE
                                           ELSE actions_sync,
                  !.state = IF command = "import" \/ actions_sync THEN "importing"
                            ELSE "serving"]

\* _import_actions importing a directory again after an error that is no
\* ActionServerValidationError.
AfterImportRetries(r, t) ==
    LET logged == [r EXCEPT !.outcomes = Append(@, IF t.status = "raised" THEN t.raised
                                                   ELSE t.status)]
        returned == [logged EXCEPT !.imported = @ + 1]
    IN  IF t.status = "raised"
        THEN IF IsActionServerValidationError(t.raised)
             THEN [logged EXCEPT !.state = "returned", !.code = 1]
             ELSE logged
        ELSE IF returned.imported < Len(r.dir) THEN returned
        ELSE IF r.command = "import" THEN [returned EXCEPT !.state = "returned", !.code = 0]
        ELSE [returned EXCEPT !.state = "serving"]

\* start going on to the server whatever _import_actions returned ("if code
\* != 0: return code" left out).
AfterImportStartsAnyway(r, t) ==
    LET logged == [r EXCEPT !.outcomes = Append(@, IF t.status = "raised" THEN t.raised
                                                   ELSE t.status)]
        returned == [logged EXCEPT !.imported = @ + 1]
    IN  IF t.status = "raised"
        THEN IF IsActionServerValidationError(t.raised)
             THEN IF r.command = "import"
                  THEN [logged EXCEPT !.state = "returned", !.code = 1]
                  ELSE [logged EXCEPT !.state = "serving", !.code = 1]
             ELSE [logged EXCEPT !.state = "raised", !.raised = t.raised]
        ELSE IF returned.imported < Len(r.dir) THEN returned
        ELSE IF r.command = "import" THEN [returned EXCEPT !.state = "returned", !.code = 0]
        ELSE [returned EXCEPT !.state = "serving"]

\* _import_actions goes on after a failed import (what the except clause
\* outside the loop does not do).
AfterImportGoesOn(r, t) ==
    LET logged == [r EXCEPT !.outcomes = Append(@, IF t.status = "raised" THEN t.raised
                                                   ELSE t.status),
                            !.imported = @ + 1,
                            !.code = IF t.status = "raised" THEN 1 ELSE @]
    IN  IF logged.imported < Len(r.dir) THEN logged
        ELSE IF r.command = "import" \/ logged.code # 0
        THEN [logged EXCEPT !.state = "returned"]
        ELSE [logged EXCEPT !.state = "serving"]

\* Lines 407-423 and 726-732 after import_action_package ended as in t: an
\* ActionServerValidationError is caught and 1 returned, any other error
\* leaves the loop and the command as an exception; after the last directory
\* 0 is returned, and start goes on to start the server.
AfterImport(r, t) ==
    LET logged == [r EXCEPT !.outcomes = Append(@, IF t.status = "raised" THEN t.raised
                                                   ELSE t.status)]
        returned == [logged EXCEPT !.imported = @ + 1]
    IN  IF t.status = "raised"
        THEN IF IsActionServerValidationError(t.raised)
             THEN [logged EXCEPT !.state = "returned", !.code = 1]
             ELSE [logged EXCEPT !.state = "raised", !.raised = t.raised]
        ELSE IF returned.imported < Len(r.dir) THEN returned
        ELSE IF r.command = "import" THEN [returned EXCEPT !.state = "returned", !.code = 0]
        ELSE [returned EXCEPT !.state = "serving"]

\* A command is given, the one before it, if any, having ended: import, or
\* start with or without --actions-sync=false, with up to MaxDirs --dir
\* arguments.
RunCommand(inputs, max_commands) ==
    \E command \in {"import", "start"}, actions_sync \in BOOLEAN,
       dir \in SeqsUpTo(inputs.paths, MaxDirs), whitelist \in inputs.whitelists :
        /\ run.state # "importing"
        /\ run.number < max_commands
        /\ command = "import" => actions_sync
        /\ run' = [Main(command, actions_sync, dir, whitelist) EXCEPT
                      !.number = run.number + 1, !.found = Db]
        /\ UNCHANGED <<action_package, action, pre, last, n_imports, trace, hashed>>

\* The package an import that ended as in t resolved, and the names of the
\* entries its loop over actions_list_result (lines 449-457) let through to
\* the catalog: none if the import raised or skipped the package.
Accepted(t) ==
    [name |-> t.name,
     actions |-> IF t.status # "returned" THEN {}
                 ELSE { t.stdout.entries[i].name : i \in
                          { j \in DOMAIN t.stdout.entries :
                              t.whitelist = ""
                              \/ accept_action(t.whitelist, t.name,
                                               t.stdout.entries[j].name) } }]

\* The loop of _import_actions imports the next directory.
ImportNextDirectory(inputs) ==
    /\ run.state = "importing"
    /\ ImportDirectory(inputs, Abspath(run.dir[run.imported + 1]), run.whitelist,
                       run.disable_not_imported)
    /\ run' = [AfterImport(run, trace') EXCEPT !.accepted = Append(@, Accepted(trace'))]
    /\ UNCHANGED hashed

\* The same of a command taken by itself, whatever process runs it.
Command(inputs, max_commands) ==
    RunCommand(inputs, max_commands) /\ UNCHANGED <<mutex, process>>

ImportNext(inputs) ==
    ImportNextDirectory(inputs) /\ UNCHANGED <<mutex, process>>

\* The inputs of the imports of a batch.
BatchInputs ==
    [names |-> ActionNames(1), malformed |-> FALSE, stderrs |-> {""},
     failures |-> { Listed(1, "object", "errors", <<>>, "an error"),
                    Listed(2, "invalid", "", <<>>, "an error") },
     paths |-> {"d1", "d3", "d4", "d5", "d6", "d10", "a_file", "nowhere"},
     whitelists |-> {""}, frozen |-> {"not_frozen"}, provisions |-> {EnvOk},
     primary |-> {Printed(<<"1", "0", "0">>), ProbeFailed},
     deprecated |-> {Printed(<<"0", "0", "6">>)},
     hooks |-> {"ok"}, prunes |-> BOOLEAN]

\* One command.
NextBatch ==
    \/ Command(BatchInputs, 1)
    \/ ImportNext(BatchInputs)

SpecBatch == Init /\ [][NextBatch]_vars

\* The inputs of the imports of commands that all import the current
\* directory.
CommandInputs ==
    [SetupInputs EXCEPT !.names = ActionNames(1), !.paths = {"."}, !.prunes = BOOLEAN]

\* Up to MaxCommands commands, one after the other.
NextCommands ==
    \/ Command(CommandInputs, MaxCommands)
    \/ ImportNext(CommandInputs)

SpecCommands == Init /\ [][NextCommands]_vars

\* The inputs of the imports of a batch with a whitelist or none and a hook
\* that may raise.
TerminationInputs ==
    [BatchInputs EXCEPT !.whitelists = {"", "wl_p2"}, !.hooks = {"ok", "raises"}]

NextTermination ==
    \/ Command(TerminationInputs, 1)
    \/ ImportNext(TerminationInputs)

\* One command whose loop, a sequential for loop over base_args.dir whose
\* calls return, goes on to its next directory as long as there is one.
SpecTermination ==
    Init /\ [][NextTermination]_vars /\ WF_vars(ImportNext(TerminationInputs))

\* The inputs of the imports of a synchronization over the directories of
\* two packages.
SyncInputs ==
    [SetupInputs EXCEPT !.names = ActionNames(1), !.whitelists = {"", "wl_not_a"}]

\* Imports that fill the catalog, then one command.
NextSync ==
    \/ /\ run.number = 0
       /\ n_imports < MaxImportsPipeline
       /\ ImportDirectories(SyncInputs)
    \/ Command(SyncInputs, 1)
    \/ ImportNext(SyncInputs)

SpecSync == Init /\ [][NextSync]_vars

-----------------------------------------------------------------------------
\* _make_import_migrate_or_start in several processes on one datadir.

\* SystemMutex("action_server.lock", base_dir=datadir).get_mutex_aquired():
\* the new mutex object of process p has the lock if no other process holds
\* it.
get_mutex_aquired(holder, p) == holder = 0

\* mutex.release_mutex() of process p.
release_mutex(holder, p) == IF holder = p THEN 0 ELSE holder

\* The commands that take the mutex.
LockCommands == {"migrate", "import", "start"}

\* A process is launched with one of the commands.
Launch(p) ==
    \E command \in LockCommands :
        /\ process[p].pc = "idle"
        /\ process' = [process EXCEPT ![p] = [@ EXCEPT !.pc = "acquiring",
                                                       !.command = command]]
        /\ UNCHANGED <<action_package, action, pre, last, n_imports, trace, run, hashed,
                       mutex>>

\* MutexLoop going on to the command when its wait has timed out.
MutexLoopGoesOn(p) ==
    /\ process[p].pc = "acquiring"
    /\ IF get_mutex_aquired(mutex, p)
       THEN /\ mutex' = p
            /\ process' = [process EXCEPT ![p] = [@ EXCEPT !.pc = "setup_logging",
                                                           !.acquired = TRUE]]
       ELSE \E timed_out \in (IF process[p].waits + 1 < MaxWaits THEN BOOLEAN ELSE {TRUE}) :
            /\ mutex' = mutex
            /\ process' = [process EXCEPT ![p] =
                               IF timed_out
                               THEN [@ EXCEPT !.pc = "setup_logging", !.waits = @ + 1]
                               ELSE [@ EXCEPT !.waits = @ + 1]]
    /\ UNCHANGED <<action_package, action, pre, last, n_imports, trace, run, hashed>>

\* Lines 610-640, one turn of the while loop: a new SystemMutex is made; if
\* it was acquired the loop is left; else the process sleeps and, if
\* timeout_at has passed (at the latest after MaxWaits turns), returns 1.
MutexLoop(p) ==
    /\ process[p].pc = "acquiring"
    /\ IF get_mutex_aquired(mutex, p)
       THEN /\ mutex' = p
            /\ process' = [process EXCEPT ![p] = [@ EXCEPT !.pc = "setup_logging",
                                                           !.acquired = TRUE]]
       ELSE \E timed_out \in (IF process[p].waits + 1 < MaxWaits THEN BOOLEAN ELSE {TRUE}) :
            /\ mutex' = mutex
            /\ process' = [process EXCEPT ![p] =
                               IF timed_out
                               THEN [@ EXCEPT !.pc = "done", !.code = 1, !.waits = @ + 1]
                               ELSE [@ EXCEPT !.waits = @ + 1]]
    /\ UNCHANGED <<action_package, action, pre, last, n_imports, trace, run, hashed>>

\* Line 645, _setup_logging, after the loop and before the try statement:
\* the RotatingFileHandler opens server_log.txt in the datadir, which
\* succeeds or raises OSError; a raise leaves the function past the
\* try/finally.
SetupLogging(p) ==
    \E opened \in BOOLEAN :
        /\ process[p].pc = "setup_logging"
        /\ process' = [process EXCEPT ![p] =
                           IF opened THEN [@ EXCEPT !.pc = "try"]
                           ELSE [@ EXCEPT !.pc = "done", !.raised = "OSError"]]
        /\ UNCHANGED <<action_package, action, pre, last, n_imports, trace, run, hashed,
                       mutex>>

\* Lines 785-786: whatever leaves the try statement, by return or by an
\* exception, goes through "finally: mutex.release_mutex()".
Finally(p, code, raised) ==
    /\ mutex' = release_mutex(mutex, p)
    /\ process' = [process EXCEPT ![p] = [@ EXCEPT !.pc = "done", !.code = code,
                                                   !.raised = raised,
                                                   !.releases = @ + 1]]

\* Lines 647-703 for the ways out before the catalog is opened: migrate
\* returns 0 or 1; import and start return 1 if a migration is pending.
LeaveBeforeCatalog(p) ==
    /\ process[p].pc = "try"
    /\ IF process[p].command = "migrate"
       THEN \E code \in {0, 1} : Finally(p, code, "")
       ELSE Finally(p, 1, "")
    /\ UNCHANGED <<action_package, action, pre, last, n_imports, trace, run, hashed>>

\* How the process goes on when its command is in the state of r: the loop
\* of _import_actions goes on, the server is started, or the command is
\* left with the return code or the exception.
AfterCommand(p, r) ==
    IF r.state = "importing"
    THEN /\ mutex' = mutex
         /\ process' = [process EXCEPT ![p] = [@ EXCEPT !.pc = "command",
                                                        !.db_opened = TRUE]]
    ELSE IF r.state = "serving"
    THEN /\ mutex' = mutex
         /\ process' = [process EXCEPT ![p] = [@ EXCEPT !.pc = "serving",
                                                        !.db_opened = TRUE]]
    ELSE /\ mutex' = release_mutex(mutex, p)
         /\ process' = [process EXCEPT ![p] =
                            [@ EXCEPT !.pc = "done", !.db_opened = TRUE,
                                      !.code = IF r.state = "raised" THEN -1 ELSE r.code,
                                      !.raised = r.raised, !.releases = @ + 1]]

\* Lines 705-732: no migration pending, the catalog is opened (use_db_ctx)
\* and the command import or start begun.
OpenCatalog(p, inputs) ==
    /\ process[p].pc = "try"
    /\ process[p].command \in {"import", "start"}
    /\ RunCommand(inputs, NumProcesses)
    /\ run'.command = process[p].command
    /\ AfterCommand(p, run')

\* The loop of _import_actions in process p.
ProcessImportNext(p, inputs) ==
    /\ process[p].pc = "command"
    /\ ImportNextDirectory(inputs)
    /\ AfterCommand(p, run')

\* Lines 734-780: start_server returns (0 is returned), is interrupted from
\* the keyboard (1 is returned) or raises.
ServerExit(p) ==
    /\ process[p].pc = "serving"
    /\ \E ending \in {"returned", "KeyboardInterrupt", "raised"} :
          Finally(p, CASE ending = "returned" -> 0
                       [] ending = "KeyboardInterrupt" -> 1
                       [] OTHER -> -1,
                  IF ending = "raised" THEN "Exception" ELSE "")
    /\ UNCHANGED <<action_package, action, pre, last, n_imports, trace, run, hashed>>

\* The inputs of the imports of these processes: the current directory or a
\* path that does not exist, an enumerator that may report lint errors.
LockInputs ==
    [SetupInputs EXCEPT !.names = ActionNames(1), !.paths = {".", "nowhere"},
                        !.failures = {Listed(1, "object", "errors", <<>>, "an error")}]

NextLock ==
    \E p \in Pids :
        \/ Launch(p)
        \/ MutexLoop(p)
        \/ SetupLogging(p)
        \/ LeaveBeforeCatalog(p)
        \/ OpenCatalog(p, LockInputs)
        \/ ProcessImportNext(p, LockInputs)
        \/ ServerExit(p)

SpecLock == Init /\ [][NextLock]_vars

-----------------------------------------------------------------------------
\* The environment hash as a function of the manifest text.

\* The lines of the manifests hashed: a comment, the dependencies (two
\* contents), the channels, and a line that is not YAML.
ManifestLines ==
    { CommentLine, PairLine("dependencies", "deps1"), PairLine("dependencies", "deps2"),
      PairLine("channels", "conda-forge"), BadLine }

\* No key twice in one manifest.
DistinctKeys(text) ==
    \A i, j \in DOMAIN text :
        (text[i].kind = "pair" /\ text[j].kind = "pair" /\ text[i].key = text[j].key)
            => i = j

ManifestTexts == { text \in SeqsUpTo(ManifestLines, MaxLines) : DistinctKeys(text) }

\* The hash of one more manifest is computed.
HashManifest ==
    \E text \in ManifestTexts :
        /\ Cardinality(hashed) < MaxHashed
        /\ hashed' = hashed \cup {LoadAndHash(text)}
        /\ UNCHANGED <<action_package, action, pre, last, n_imports, trace, run,
                       mutex, process>>

NextHash == HashManifest

SpecHash == Init /\ [][NextHash]_vars

-----------------------------------------------------------------------------
\* What the claims speak of.

Rows(table) == { table[i] : i \in DOMAIN table }

Ids(table) == { table[i].id : i \in DOMAIN table }

Committed == last.outcome = "committed"

\* The packages the last import found under its name.
PrePackages ==
    { r \in Rows(pre.action_package) : r.name = last.action_package.name }

\* The last import found a package with its name in the catalog.
PreExisting == PrePackages # {}

\* That package, as the last import found it.
PrePackage == CHOOSE r \in PrePackages : TRUE

\* The actions of that package, as the last import found them.
PreActions == { r \in Rows(pre.action) : r.action_package_id = PrePackage.id }

\* The names the enumerator reported to the last import.
EnumeratedNames ==
    { last.actions_list_result[i].name : i \in DOMAIN last.actions_list_result }

\* Those of them the action-level whitelist let through: the discovered
\* actions handed to the reconciliation.
AcceptedNames ==
    { n \in EnumeratedNames :
        last.whitelist = ""
        \/ accept_action(last.whitelist, last.action_package.name, n) }

\* The docs the last enumeration gave for a name.
EnumeratedDocs(n) ==
    { last.actions_list_result[i].docs :
        i \in { j \in DOMAIN last.actions_list_result :
                  last.actions_list_result[j].name = n } }

-----------------------------------------------------------------------------
\* C1: after a committed re-import of an existing package P with pruning
\* requested, every discovered name that a persisted action of P bore is a
\* persisted row of P (same id), now enabled and carrying the discovered
\* fields, and no row was inserted for it; every discovered name no persisted
\* action of P bore is a new enabled row owned by P; every persisted action
\* of P whose name was not discovered is the same row with enabled = FALSE.
C1_Reconciliation ==
    (Committed /\ PreExisting /\ last.disable_not_imported) =>
        /\ \A n \in AcceptedNames :
             IF \E r \in PreActions : r.name = n
             THEN /\ \E r \in PreActions, q \in Rows(action) :
                       /\ r.name = n
                       /\ q.id = r.id
                       /\ q.name = n
                       /\ q.action_package_id = PrePackage.id
                       /\ q.enabled
                       /\ q.docs \in EnumeratedDocs(n)
                  /\ \A q \in Rows(action) :
                       (q.name = n /\ q.action_package_id = PrePackage.id)
                           => q.id \in Ids(pre.action)
             ELSE \E q \in Rows(action) :
                       /\ q.id \notin Ids(pre.action)
                       /\ q.name = n
                       /\ q.action_package_id = PrePackage.id
                       /\ q.enabled
                       /\ q.docs \in EnumeratedDocs(n)
        /\ \A r \in PreActions :
             r.name \notin AcceptedNames
                 => [r EXCEPT !.enabled = FALSE] \in Rows(action)

\* Persisted {a, b}, discovered {b, c}, pruning on: a disabled, b the same
\* row enabled with new docs, c inserted and enabled.
C1_Witness ==
    /\ Committed /\ PreExisting /\ last.disable_not_imported
    /\ AcceptedNames = {"b", "c"}
    /\ \E ra \in PreActions, rb \in PreActions :
         /\ ra.name = "a" /\ ra.enabled
         /\ rb.name = "b" /\ rb.docs \notin EnumeratedDocs("b")
         /\ [ra EXCEPT !.enabled = FALSE] \in Rows(action)
         /\ \E q \in Rows(action) :
              q.id = rb.id /\ q.enabled /\ q.docs \in EnumeratedDocs("b")
    /\ \E q \in Rows(action) :
         /\ q.name = "c" /\ q.enabled
         /\ q.id \notin Ids(pre.action)
         /\ q.action_package_id = PrePackage.id

-----------------------------------------------------------------------------
\* C2: an import changes the enabled flag of no action owned by a package
\* other than the one imported.
C2_DisableScoped ==
    Committed =>
        \A r \in Rows(pre.action) :
            (~PreExisting \/ r.action_package_id # PrePackage.id)
                => \E q \in Rows(action) : q.id = r.id /\ q.enabled = r.enabled

-----------------------------------------------------------------------------
\* A persisted action the last import rediscovered: one of the package
\* imported, bearing a name handed to the reconciliation.
Rediscovered(r) ==
    /\ PreExisting
    /\ r.action_package_id = PrePackage.id
    /\ r.name \in AcceptedNames

\* C3: an import run with disable_not_imported = FALSE turns no action from
\* enabled to disabled, and every persisted action it did not rediscover is
\* in the catalog afterwards with every field as before.
C3_PruningOff ==
    (Committed /\ ~last.disable_not_imported) =>
        \A r \in Rows(pre.action) :
            /\ r.enabled => \E q \in Rows(action) : q.id = r.id /\ q.enabled
            /\ ~Rediscovered(r) => r \in Rows(action)

\* A re-import without pruning that rediscovers some action and not another,
\* enabled one of the same package, which stays as it was.
C3_Witness ==
    /\ Committed /\ ~last.disable_not_imported /\ PreExisting
    /\ AcceptedNames # {}
    /\ \E r \in PreActions :
         r.enabled /\ r.name \notin AcceptedNames /\ r \in Rows(action)

-----------------------------------------------------------------------------
\* Two imports in a row, both committed, of the same directory with the same
\* manifest, enumerator output and whitelist.
SameImportAgain ==
    /\ last.outcome = "committed"
    /\ last'.outcome = "committed"
    /\ WithoutId(last'.action_package) = WithoutId(last.action_package)
    /\ last'.actions_list_result = last.actions_list_result
    /\ last'.whitelist = last.whitelist

\* A row but for its enabled flag.
ButEnabled(r) == [r EXCEPT !.enabled = TRUE]

\* C4: the second of two such imports inserts no package and no action: the
\* package table is left as it was, with one row for the name, and the action
\* table holds the same rows with the same ids, owners, names and fields.
C4_Idempotence ==
    [][SameImportAgain =>
         /\ action_package' = action_package
         /\ Cardinality({ r \in Rows(action_package') :
                            r.name = last'.action_package.name }) = 1
         /\ Len(action') = Len(action)
         /\ \A i \in DOMAIN action : ButEnabled(action'[i]) = ButEnabled(action[i])
      ]_vars

\* A committed re-import that found the package row and an action row for
\* every accepted name exactly as an import of the same directory leaves
\* them, and inserted nothing.
C4_Witness ==
    /\ Committed /\ PreExisting
    /\ WithoutId(PrePackage) = WithoutId(last.action_package)
    /\ Cardinality(AcceptedNames) = 2
    /\ \A n \in AcceptedNames :
         \E r \in PreActions : r.name = n /\ r.docs \in EnumeratedDocs(n)
    /\ action_package = pre.action_package
    /\ Ids(action) = Ids(pre.action)

-----------------------------------------------------------------------------
\* C5: no two Action rows share (action_package_id, name).
C5_UniqueActionNames ==
    \A i \in DOMAIN action, j \in DOMAIN action :
        (i # j) =>
            ~(/\ action[i].action_package_id = action[j].action_package_id
              /\ action[i].name = action[j].name)

-----------------------------------------------------------------------------
\* A committed pruning re-import of an existing package under a whitelist.
PruningUnderWhitelist ==
    Committed /\ PreExisting /\ last.disable_not_imported /\ last.whitelist # ""

\* The names enumerated and dropped by the action-level whitelist.
RejectedNames == EnumeratedNames \ AcceptedNames

\* C6, as claimed: a persisted, still enumerated action that the whitelist
\* rejects does not have its enabled flag set to false by a pruning
\* re-import.
C6_FilteredNotDisabled ==
    PruningUnderWhitelist =>
        \A r \in PreActions :
            (r.name \in RejectedNames /\ r.enabled)
                => \E q \in Rows(action) : q.id = r.id /\ q.enabled

\* C6, amended: such an action is treated as not imported: the pruning
\* re-import leaves its row with enabled = FALSE and every other field as it
\* was.
C6_FilteredIsDisabled ==
    PruningUnderWhitelist =>
        \A r \in PreActions :
            r.name \in RejectedNames
                => [r EXCEPT !.enabled = FALSE] \in Rows(action)

\* A pruning re-import under a whitelist rejecting a, which was persisted and
\* enabled and is still enumerated: a is disabled.
C6_Witness ==
    /\ PruningUnderWhitelist
    /\ "a" \in RejectedNames
    /\ \E r \in PreActions :
         /\ r.name = "a" /\ r.enabled
         /\ [r EXCEPT !.enabled = FALSE] \in Rows(action)

-----------------------------------------------------------------------------
\* C7: whatever the last import did (committed, failed on a write, skipped,
\* pruning or not), every Action id and every ActionPackage id it found is
\* still in the catalog, and no table got shorter.
C7_NeverDeleted ==
    /\ Ids(pre.action) \subseteq Ids(action)
    /\ Ids(pre.action_package) \subseteq Ids(action_package)
    /\ Len(pre.action) <= Len(action)
    /\ Len(pre.action_package) <= Len(action_package)

\* A pruning re-import that no longer finds an enabled action: its row is
\* still there, disabled.
C7_Witness ==
    /\ Committed /\ PreExisting /\ last.disable_not_imported
    /\ \E r \in PreActions :
         /\ r.enabled /\ r.name \notin EnumeratedNames
         /\ \E q \in Rows(action) : q.id = r.id /\ ~q.enabled

-----------------------------------------------------------------------------
\* C8: no two packages share a name; a committed import whose name already
\* has a row adds no package row, leaves that row with its id and with the
\* freshly resolved directory, hash and environment, and the fresh id of the
\* import is the id of no package row.
C8_PackageIdentity ==
    /\ \A i \in DOMAIN action_package, j \in DOMAIN action_package :
         (i # j) => action_package[i].name # action_package[j].name
    /\ (Committed /\ PreExisting) =>
         /\ Len(action_package) = Len(pre.action_package)
         /\ [last.action_package EXCEPT !.id = PrePackage.id]
                \in Rows(action_package)
         /\ last.action_package.id # PrePackage.id
         /\ last.action_package.id \notin Ids(action_package)

\* A committed import of another directory resolving to an existing name: the
\* row keeps its id and gets the new directory, hash and environment.
C8_Witness ==
    /\ Committed /\ PreExisting
    /\ PrePackage.directory # last.action_package.directory
    /\ PrePackage.conda_hash # last.action_package.conda_hash
    /\ PrePackage.env_json # last.action_package.env_json
    /\ [last.action_package EXCEPT !.id = PrePackage.id] \in Rows(action_package)

-----------------------------------------------------------------------------
\* C9: a committed import of P that rediscovers (and whose whitelist
\* accepts) the name of a disabled action of P leaves that row enabled,
\* pruning or not.
C9_Reenabled ==
    (Committed /\ PreExisting) =>
        \A r \in PreActions :
            (~r.enabled /\ r.name \in AcceptedNames)
                => \E q \in Rows(action) : q.id = r.id /\ q.enabled

-----------------------------------------------------------------------------
\* C10: an import in which a catalog write failed leaves both tables exactly
\* as it found them.
C10_Atomic ==
    last.outcome = "db_error" =>
        /\ action_package = pre.action_package
        /\ action = pre.action

\* A re-import of an existing package whose third or later write failed,
\* after the package update and an action write had been made.
C10_Witness ==
    /\ last.outcome = "db_error"
    /\ PreExisting
    /\ last.fail_at >= 3
    /\ action_package = pre.action_package
    /\ action = pre.action

-----------------------------------------------------------------------------
\* contents == other of two dicts: the same keys with the same values.
DictEqual(contents, other) ==
    { <<contents.items[i].key, contents.items[i].value>> : i \in DOMAIN contents.items }
        = { <<other.items[i].key, other.items[i].value>> : i \in DOMAIN other.items }

\* The manifests hashed without error.
Hashed == { m \in hashed : m.raised = "" }

\* C17: hash stability.  Two manifests that parse to the same structure,
\* the same keys and values in a different key order included, get the same
\* environment hash, and two manifests whose parsed content differs get
\* different hashes.
C17_HashStability ==
    \A m1, m2 \in Hashed :
        (m1.condahash = m2.condahash)
            <=> DictEqual(yaml_safe_load(m1.text), yaml_safe_load(m2.text))

-----------------------------------------------------------------------------
\* How the import of one directory of a command ended: well (it returned,
\* having committed or skipped) or by an error.
EndedWell(outcome) == outcome \in {"returned", "skipped"}

\* C11: a batch is fail-fast and not atomic.  The directories of a command
\* are imported one at a time in the order given; a failed import is the
\* last import of the command: the directories before it were imported and
\* committed, the catalog is as the failed import found it (what they
\* committed, and nothing of the failed one), and no directory after it is
\* imported.
C11_FailFast ==
    /\ Len(run.outcomes) <= Len(run.dir)
    /\ n_imports = Len(run.outcomes)
    /\ \A i \in DOMAIN run.outcomes :
        /\ EndedWell(run.outcomes[i]) => i <= run.imported
        /\ ~EndedWell(run.outcomes[i]) =>
            /\ i = Len(run.outcomes)
            /\ i = run.imported + 1
            /\ \A j \in 1..(i - 1) : EndedWell(run.outcomes[j])
            /\ run.state \in {"returned", "raised"}
            /\ trace.path = Abspath(run.dir[i])
            /\ Db = pre

\* The second of three directories fails after the first was committed with
\* an action.
C11_Witness ==
    /\ Len(run.dir) = 3
    /\ Len(run.outcomes) = 2
    /\ run.outcomes[1] = "returned"
    /\ ~EndedWell(run.outcomes[2])
    /\ run.state \in {"returned", "raised"}
    /\ action # <<>>

-----------------------------------------------------------------------------
\* The last import ran the enumerator, which ended with exit code 1 and a
\* JSON object on stdout whose lint_result is a dict holding errors.
LintFailed ==
    /\ trace.exit_code = 1
    /\ trace.stdout.type = "object"
    /\ trace.stdout.lint_result = "errors"

\* C12: a lint failure is a validation error with no catalog effect.  When
\* the enumerator exits with code 1 and stdout is a JSON object with a
\* well-formed lint_result, the import raises ActionServerValidationError
\* with the formatted lint message, and both tables stay as they were.
C12_LintFailure ==
    LintFailed =>
        /\ trace.status = "raised"
        /\ trace.raised = "ActionServerValidationError"
        /\ trace.message = "lint: errors found"
        /\ Db = pre
        /\ last.outcome = "raised"

\* A lint failure of the import of a package the catalog holds with actions.
C12_Witness ==
    /\ LintFailed
    /\ \E r \in Rows(action_package) : r.name = trace.name
    /\ action # <<>>

-----------------------------------------------------------------------------
\* The last import resolved a package name that its non-empty whitelist
\* rejects.
PackageRejected ==
    /\ trace.name # ""
    /\ trace.whitelist # ""
    /\ ~accept_action_package(trace.whitelist, trace.name)

\* The calls of the provisioner, of the version probes and of the enumerator.
StartsEnvironmentOrSubprocess(callee) ==
    callee \in {"create_env_and_get_vars", "version sema4ai.actions",
                "version robocorp.actions", "actions list"}

\* C13: the package-level whitelist short-circuits the import.  When a
\* non-empty whitelist rejects the resolved package name the import returns
\* without error, having called neither the provisioner nor a version probe
\* nor the enumerator, and the catalog is unchanged; an import with the
\* empty whitelist is never skipped.
C13_WhitelistShortCircuit ==
    /\ PackageRejected =>
        /\ trace.status = "skipped"
        /\ trace.raised = ""
        /\ \A i \in DOMAIN trace.calls : ~StartsEnvironmentOrSubprocess(trace.calls[i])
        /\ Db = pre
    /\ trace.whitelist = "" => trace.status # "skipped"

\* A rejected import of a directory with a manifest, of a package the
\* catalog holds.
C13_Witness ==
    /\ PackageRejected
    /\ trace.manifest = "package.yaml"
    /\ \E r \in Rows(action_package) : r.name = trace.name

-----------------------------------------------------------------------------
\* The last import failed in one of the ways the error taxonomy calls a
\* validation error: the directory is missing or no directory, the manifest
\* is no YAML, no mapping or without dependencies, the lint failed, or the
\* version is below the hard minimum.
FailedValidation ==
    /\ trace.status = "raised"
    /\ \/ ~FileSystem(trace.path).exists
       \/ ~FileSystem(trace.path).is_dir
       \/ trace.message \in {"Error loading file as yaml", "does not seem a valid yaml",
                             "has no dict as top-level", "has no 'dependencies' specified"}
       \/ LintFailed
       \/ /\ trace.v # <<>>
          /\ TupleLess(trace.v, <<0, 0, 7>>)

\* C14: the error taxonomy at the batch driver.  Every failure of the kinds
\* above is raised as ActionServerValidationError, which the driver catches
\* and turns into return code 1; only errors of other kinds leave the
\* driver as exceptions.
C14_ErrorTaxonomy ==
    /\ FailedValidation =>
        /\ trace.raised = "ActionServerValidationError"
        /\ run.state = "returned"
        /\ run.code = 1
    /\ run.state = "raised" => ~FailedValidation

-----------------------------------------------------------------------------
\* The last import called the named collaborator.
Called(callee) == \E i \in DOMAIN trace.calls : trace.calls[i] = callee

\* The last import found the library under the deprecated name only, in
\* the version trace.v.
DeprecatedOnly == trace.v # <<>> /\ Called("version robocorp.actions")

\* The last import was refused by the version gate, with a message that
\* names the minimum 0.0.7.
RefusedByVersionGate ==
    /\ trace.status = "raised"
    /\ trace.raised = "ActionServerValidationError"
    /\ trace.message \in {"Expected robocorp-actions version to be 0.0.7 or higher",
                          "Expected it to be 0.0.7 or higher"}

\* v is below (0, 0, 7) as a tuple of integers: at the first place where the
\* two differ v holds the smaller number, or v ends there.
BelowHardMinimum(v) ==
    \E k \in 1..3 :
        /\ \A j \in 1..(k - 1) : j <= Len(v) /\ v[j] = <<0, 0, 7>>[j]
        /\ k > Len(v) \/ v[k] < <<0, 0, 7>>[k]

\* C15: the version gate boundary.  The hard minimum (0, 0, 7) is enforced
\* when the library is found under the deprecated name only, by comparing
\* tuples of integers: a version equal to the minimum lets the import go on
\* to the enumerator, a version one patch below makes it fail with a
\* validation error naming the minimum, and a refused import changes nothing
\* in the catalog.
C15_VersionGate ==
    /\ DeprecatedOnly =>
        /\ RefusedByVersionGate <=> BelowHardMinimum(trace.v)
        /\ trace.v = <<0, 0, 7>> => Called("actions list")
        /\ trace.v = <<0, 0, 6>> => RefusedByVersionGate
    /\ RefusedByVersionGate => DeprecatedOnly /\ Db = pre /\ ~Called("actions list")

\* An import with the deprecated library in version 0.0.7 went through and
\* was committed.
C15_Witness ==
    /\ DeprecatedOnly
    /\ trace.v = <<0, 0, 7>>
    /\ last.outcome = "committed"
    /\ action # <<>>

-----------------------------------------------------------------------------
\* The last import got as far as looking for a manifest in a directory that
\* holds none of package.yaml, action-server.yaml and conda.yaml.
NoManifest ==
    /\ trace.status \in {"raised", "returned"}
    /\ FileSystem(trace.path).is_dir
    /\ ~FileSystem(trace.path).package_yaml.exists
    /\ ~FileSystem(trace.path).action_server_yaml.exists
    /\ ~FileSystem(trace.path).conda_yaml.exists

\* C16: the missing manifest.  In a server that is not frozen the import
\* goes on to the version probe without calling the provisioner, with the
\* empty environment, and a package row it commits holds the hash
\* "<unmanaged>"; in a frozen server it fails with a validation error and
\* the catalog is unchanged.
C16_MissingManifest ==
    /\ (NoManifest /\ trace.frozen # "frozen") =>
        /\ trace.frozen = "not_frozen"
        /\ ~Called("create_env_and_get_vars")
        /\ Called("version sema4ai.actions")
        /\ last.outcome = "committed" =>
            \E r \in Rows(action_package) :
                /\ r.name = trace.name
                /\ r.conda_hash = "<unmanaged>"
                /\ r.env_json = "{}"
    /\ (NoManifest /\ trace.frozen = "frozen") =>
        /\ trace.raised = "ActionServerValidationError"
        /\ trace.calls = <<>>
        /\ Db = pre

\* A committed import without manifest of a package that the catalog held
\* with a managed environment.
C16_Witness ==
    /\ NoManifest
    /\ trace.frozen = "not_frozen"
    /\ last.outcome = "committed"
    /\ \E r \in Rows(pre.action_package) : r.name = trace.name /\ r.conda_hash # "<unmanaged>"
    /\ \E r \in Rows(action_package) : r.name = trace.name /\ r.conda_hash = "<unmanaged>"

-----------------------------------------------------------------------------
\* The current command has made an import: last is an import of this command.
HasImported == run.outcomes # <<>>

\* C18: which command prunes.  The import command imports every directory
\* with pruning off, and no action that was enabled when the command began
\* is disabled; start with actions-sync true imports every directory with
\* pruning on; start with actions-sync false imports nothing, leaves the
\* catalog as it found it and starts the server.
C18_WhichCommandPrunes ==
    /\ run.command = "import" =>
        /\ HasImported => ~last.disable_not_imported
        /\ \A q \in Rows(run.found.action) :
            q.enabled => \E r \in Rows(action) : r.id = q.id /\ r.enabled
    /\ (run.command = "start" /\ run.actions_sync) =>
        (HasImported => last.disable_not_imported)
    /\ (run.command = "start" /\ ~run.actions_sync) =>
        /\ ~HasImported
        /\ Db = run.found
        /\ run.state = "serving"

\* After a command that inserted an action, start with actions-sync true
\* disabled it.
C18_Witness ==
    /\ run.number = 2
    /\ run.command = "start"
    /\ run.actions_sync
    /\ \E q \in Rows(run.found.action) :
        q.enabled /\ \E r \in Rows(action) : r.id = q.id /\ ~r.enabled

-----------------------------------------------------------------------------
\* The last import ran the enumerator; how the run ended.
Enumerated == Called("actions list")
ListedArray == trace.exit_code = 0 /\ trace.stdout.type = "array"

\* The last import raised the error of the class, leaving the catalog as it was.
RaisedOnly(class) == trace.status = "raised" /\ trace.raised = class /\ Db = pre

\* C19: the classification of the enumerator's outcome is total and
\* exclusive.  Exit code 0 with a JSON array on stdout is the only success
\* (the only outcome after which the hook is called and the import may
\* return); exit code 0 with stdout that is no JSON or no array is a runtime
\* error; exit code 1 is a validation error when stdout is a JSON object
\* with a dict lint_result that formats to a message and the generic runtime
\* error otherwise; any other exit code is the runtime error, lint_result or
\* not; and no outcome but success changes the catalog.
C19_EnumeratorOutcome ==
    Enumerated =>
        /\ ListedArray <=> Called("hook_on_actions_list")
        /\ trace.status = "returned" => ListedArray
        /\ (trace.exit_code = 0 /\ ~ListedArray) => RaisedOnly("RuntimeError")
        /\ (trace.exit_code = 1 /\ LintFailed) => RaisedOnly("ActionServerValidationError")
        /\ (trace.exit_code = 1 /\ ~LintFailed) =>
            /\ RaisedOnly("RuntimeError")
            /\ trace.message = "It was not possible to list the actions"
        /\ trace.exit_code \notin {0, 1} =>
            /\ RaisedOnly("RuntimeError")
            /\ trace.message = "It was not possible to list the actions"
        /\ ~ListedArray => Db = pre

\* Exit code 2 with a lint_result holding errors on stdout, in the import of
\* a package the catalog holds.
C19_Witness ==
    /\ Enumerated
    /\ trace.exit_code = 2
    /\ trace.stdout.type = "object"
    /\ trace.stdout.lint_result = "errors"
    /\ \E r \in Rows(action_package) : r.name = trace.name

-----------------------------------------------------------------------------
\* Entry i of the list the last import enumerated lacks a key that is read:
\* its name, or, the whitelist accepting it, its docs (which stands for
\* file, line, docs, input_schema and output_schema).
Malformed(i) ==
    LET entry == trace.stdout.entries[i]
    IN  \/ "name" \notin DOMAIN entry
        \/ /\ "docs" \notin DOMAIN entry
           /\ trace.whitelist = "" \/ accept_action(trace.whitelist, trace.name, entry.name)

\* C20: malformed entries fail the whole import before any write.  If the
\* hook returned and an entry of the list lacks a key that is read, the
\* import raises KeyError and the catalog is unchanged, whatever the entries
\* before it.
C20_MalformedEntries ==
    (Called("hook_on_actions_list") /\ trace.hook = "ok"
        /\ \E i \in DOMAIN trace.stdout.entries : Malformed(i)) =>
        /\ trace.status = "raised"
        /\ trace.raised = "KeyError"
        /\ last.outcome = "raised"
        /\ Db = pre

\* A well-formed entry of an action the catalog does not hold, followed by
\* a malformed one, in the import of a package the catalog holds.
C20_Witness ==
    /\ Called("hook_on_actions_list")
    /\ Len(trace.stdout.entries) = 2
    /\ ~Malformed(1)
    /\ Malformed(2)
    /\ \E r \in Rows(action_package) :
        /\ r.name = trace.name
        /\ \A q \in Rows(action) :
            q.action_package_id = r.id => q.name # trace.stdout.entries[1].name

-----------------------------------------------------------------------------
\* C21.  The hook and the enumeration.

\* The places of a callee in the calls of the import.
CallsOf(callee) == { i \in DOMAIN trace.calls : trace.calls[i] = callee }

HookRaised == trace.status # "none" /\ trace.hook = "raises"

\* C21: hook_on_actions_list is called once by an import whose enumerator
\* exited with 0 and printed a JSON list, and by no other import; it is given
\* the list as enumerated, entries the whitelist rejects included; the
\* catalog is opened only after it; and when it raises, the import ends with
\* its exception and the catalog is as it was.
C21_HookOrdering ==
    trace.status # "none" =>
        /\ Cardinality(CallsOf("hook_on_actions_list"))
              = (IF Enumerated /\ ListedArray THEN 1 ELSE 0)
        /\ Len(trace.hook_args) = Cardinality(CallsOf("hook_on_actions_list"))
        /\ \A i \in DOMAIN trace.hook_args : trace.hook_args[i] = trace.stdout.entries
        /\ \A i \in CallsOf("hook_on_actions_list"), j \in CallsOf("get_db") : i < j
        /\ HookRaised =>
              /\ trace.status = "raised"
              /\ trace.raised = "HookError"
              /\ CallsOf("get_db") = {}
              /\ Db = pre

\* A hook that raises on a list of two entries, one of which the whitelist
\* rejects, when the catalog holds a package already.
C21_Witness ==
    /\ HookRaised
    /\ trace.whitelist = "wl_not_a"
    /\ Len(trace.hook_args) = 1
    /\ Len(trace.hook_args[1]) = 2
    /\ \E i \in DOMAIN trace.hook_args[1] : trace.hook_args[1][i].name = "a"
    /\ Len(action_package) > 0

-----------------------------------------------------------------------------
\* C22.  A provisioner that fails.

\* The provisioner was called and reported a failure or returned no
\* environment.
ProvisionerFailed ==
    /\ Called("create_env_and_get_vars")
    /\ ~trace.provision.success \/ trace.provision.result = ""

\* The texts of the errors of lines 208-217 around what they quote.
ProvisioningErrorTexts ==
    { "", "It was not possible to bootstrap the RCC environment. Error: ",
      "It was not possible to get the environment when bootstrapping RCC environment." }

\* The error message holds the provisioner's message.
CarriesProvisionerMessage ==
    \E before, after \in ProvisioningErrorTexts :
        trace.message = before \o trace.provision.message \o after

\* A failed provisioning ends the import before any probe, enumeration or
\* catalog access.
EndsAtProvisioning ==
    /\ trace.status = "raised"
    /\ trace.raised = "ActionPackageError"
    /\ \A i \in DOMAIN trace.calls :
          trace.calls[i] \in {"create_conda_from_package_yaml", "create_env_and_get_vars"}
    /\ Db = pre

\* C22: the provisioner is called at most once in an import; when it reports
\* success=false or returns no environment, the import ends with an
\* ActionPackageError whose message holds the provisioner's message, no
\* version probe or enumerator was run and the catalog is as it was.
C22_ProvisioningFailure ==
    trace.status # "none" =>
        /\ Cardinality(CallsOf("create_env_and_get_vars")) <= 1
        /\ ProvisionerFailed => (EndsAtProvisioning /\ CarriesProvisionerMessage)

-----------------------------------------------------------------------------
\* C23.  The two version probes.

\* The probe whose output is given failed: the subprocess did, or what it
\* printed is no version.
ProbeRaised(output) ==
    output.returncode # 0 \/ \E i \in DOMAIN output.parts : ~IsNumeral(output.parts[i])

\* The version a probe printed, as integers.
ProbedVersion(output) == [i \in DOMAIN output.parts |-> IntOf(output.parts[i])]

BothProbesFailed ==
    /\ Called("version robocorp.actions")
    /\ ProbeRaised(trace.primary)
    /\ ProbeRaised(trace.deprecated)

\* C23: robocorp.actions is probed only after the probe of sema4ai.actions
\* failed, and never when that one succeeded; when both fail the import ends
\* with the RuntimeError of the probe of sema4ai.actions; when only the
\* probe of robocorp.actions succeeds the import goes on with the version it
\* printed, to the version gate and, if the version passes, the enumerator.
C23_ProbeFallback ==
    /\ \A j \in CallsOf("version robocorp.actions") :
          /\ ProbeRaised(trace.primary)
          /\ \E i \in CallsOf("version sema4ai.actions") : i < j
    /\ (Called("version sema4ai.actions") /\ ~ProbeRaised(trace.primary)) =>
          /\ ~Called("version robocorp.actions")
          /\ trace.v = ProbedVersion(trace.primary)
          /\ Called("actions list")
    /\ BothProbesFailed =>
          /\ trace.status = "raised"
          /\ trace.raised = "RuntimeError"
          /\ trace.message = "Unable to get sema4ai.actions version"
          /\ ~Called("actions list")
          /\ Db = pre
    /\ (Called("version robocorp.actions") /\ ~ProbeRaised(trace.deprecated)) =>
          /\ trace.v = ProbedVersion(trace.deprecated)
          /\ Called("actions list") <=> ~BelowHardMinimum(trace.v)

\* Both probes failed in an import of a package the catalog holds: the
\* first subprocess failed, the second printed what is no version.
C23_Witness ==
    /\ BothProbesFailed
    /\ trace.primary = ProbeFailed
    /\ trace.deprecated = Printed(<<"0", "0", "7rc1">>)
    /\ trace.status = "raised"
    /\ Len(action_package) > 0

-----------------------------------------------------------------------------
\* C24.  The threshold of the encrypted secrets.

\* v is below (0, 2, 1) as a tuple of integers.
BelowSoftMinimum(v) ==
    \E k \in 1..3 :
        /\ \A j \in 1..(k - 1) : j <= Len(v) /\ v[j] = <<0, 2, 1>>[j]
        /\ k > Len(v) \/ v[k] < <<0, 2, 1>>[k]

\* The last import warned that encrypted secrets need a newer library.
SoftWarned ==
    \E i \in DOMAIN trace.warnings :
        trace.warnings[i]
            = "To receive encrypted secrets, robocorp-actions 0.2.1 or newer is required"

\* The last import found a version of the library, under either name.
Discovered == trace.status # "none" /\ trace.v # <<>>

\* C24 as claimed: the threshold of the encrypted secrets is a lower bar than
\* the hard minimum, so a version below it is below the hard minimum too, and
\* any discovered version below it yields the warning and an import that
\* goes on to the enumeration.
C24_SoftMinimumLower ==
    (Discovered /\ BelowSoftMinimum(trace.v)) =>
        /\ BelowHardMinimum(trace.v)
        /\ SoftWarned
        /\ Called("actions list")

\* C24: the threshold of the encrypted secrets, 0.2.1, is above the hard
\* minimum 0.0.7 and is looked at only when the library was found under the
\* deprecated name: the warning is logged exactly for a version found there
\* that is not below the hard minimum and is below the threshold; the import
\* then goes on to the enumerator and is not ended by the version gate, and
\* an enumeration that goes through is committed.
C24_SoftMinimumWarnOnly ==
    Discovered =>
        /\ BelowHardMinimum(trace.v) => BelowSoftMinimum(trace.v)
        /\ SoftWarned <=>
              (DeprecatedOnly /\ ~BelowHardMinimum(trace.v) /\ BelowSoftMinimum(trace.v))
        /\ SoftWarned =>
              /\ Called("actions list")
              /\ ~RefusedByVersionGate
              /\ trace.raised # "ActionServerValidationError" \/ LintFailed
              /\ (ListedArray /\ \A i \in DOMAIN trace.stdout.entries : ~Malformed(i)) =>
                    (trace.status = "returned" /\ last.outcome = "committed")

\* robocorp.actions 0.2.0 was found, the warning logged and the actions of
\* the package committed.
C24_Witness ==
    /\ SoftWarned
    /\ trace.v = <<0, 2, 0>>
    /\ last.outcome = "committed"
    /\ action # <<>>
    /\ Called("get_db")

-----------------------------------------------------------------------------
\* C25.  Which manifest is used.

\* The last import went past the whitelist (line 154) in a directory.
PastWhitelist ==
    /\ trace.status \in {"raised", "returned"}
    /\ FileSystem(trace.path).is_dir
    /\ trace.message # "Error loading file as yaml"

\* The manifest the priority order names for the directory of the last
\* import, "" if it holds none, and the text read as its conda.yaml.
ManifestByPriority ==
    LET d == FileSystem(trace.path)
    IN  IF d.package_yaml.exists THEN "package.yaml"
        ELSE IF d.action_server_yaml.exists THEN "action-server.yaml"
        ELSE IF d.conda_yaml.exists THEN "conda.yaml"
        ELSE ""

TextByPriority ==
    LET d == FileSystem(trace.path)
    IN  IF d.package_yaml.exists THEN create_conda_from_package_yaml(d.package_yaml).text
        ELSE IF d.action_server_yaml.exists THEN d.action_server_yaml.text
        ELSE d.conda_yaml.text

DeprecationWarnings ==
    { i \in DOMAIN trace.warnings : trace.warnings[i] = "_log_deprecated_conda" }

\* C25: whichever of the three manifest files exist, an import that gets past
\* the whitelist uses package.yaml if it exists, else action-server.yaml if
\* it exists, else conda.yaml: that file is the one loaded, the one whose
\* contents are hashed and the one given to the provisioner; and the
\* deprecation warning is logged, once, exactly when the file used is one of
\* the two deprecated ones.
C25_ManifestPriority ==
    PastWhitelist =>
        /\ trace.manifest = ManifestByPriority
        /\ trace.manifest # "" =>
              /\ trace.conda_yaml.text = TextByPriority
              /\ Called("create_env_and_get_vars") =>
                    trace.condahash = CondaHash(yaml_safe_load(TextByPriority))
        /\ Cardinality(DeprecationWarnings)
              = (IF trace.manifest \in {"action-server.yaml", "conda.yaml"} THEN 1 ELSE 0)

\* Both deprecated files exist and no package.yaml: action-server.yaml was
\* hashed and provisioned, with the warning.
C25_Witness ==
    /\ PastWhitelist
    /\ trace.path = "d8"
    /\ trace.manifest = "action-server.yaml"
    /\ trace.condahash = "sha256({'dependencies': 'deps2'})"
    /\ Called("create_env_and_get_vars")
    /\ trace.status = "returned"

-----------------------------------------------------------------------------
\* C26.  The name of the package.

\* The last import resolved the name of its package (lines 126-147).
Named ==
    /\ trace.status \in {"skipped", "raised", "returned"}
    /\ FileSystem(trace.path).is_dir
    /\ trace.message # "Error loading file as yaml"

\* The name package.yaml declares in the directory of the last import, ""
\* if there is no package.yaml, it holds no mapping or the mapping no name.
DeclaredName ==
    LET d == FileSystem(trace.path)
        contents == yaml_safe_load(d.package_yaml.text)
    IN  IF d.package_yaml.exists /\ IsDict(contents) THEN DictGet(contents, "name") ELSE ""

NameByRule ==
    IF DeclaredName # "" THEN DeclaredName ELSE FileSystem(trace.path).name

\* C26: the name of the package is the name package.yaml declares, if
\* package.yaml holds a mapping with a non-empty name, and the base name of
\* the directory in every other case; the package-level whitelist is asked
\* about this name; and it is under this name that the package is looked up
\* in the catalog and written.
C26_NameResolution ==
    Named =>
        /\ trace.name = NameByRule
        /\ trace.status = "skipped" <=>
              (trace.whitelist # "" /\ ~accept_action_package(trace.whitelist, NameByRule))
        /\ trace.status = "returned" =>
              /\ last.action_package.name = NameByRule
              /\ { r.name : r \in Rows(action_package) }
                    = { r.name : r \in Rows(pre.action_package) } \cup {NameByRule}
              /\ Len(action_package)
                    = Len(pre.action_package)
                        + (IF \E r \in Rows(pre.action_package) : r.name = NameByRule
                           THEN 0 ELSE 1)

\* A directory d3 whose package.yaml declares p2 was imported under a
\* whitelist that accepts p2 only, beside the package p1 of the catalog.
C26_Witness ==
    /\ Named
    /\ trace.path = "d3"
    /\ trace.whitelist = "wl_p2"
    /\ trace.status = "returned"
    /\ { r.name : r \in Rows(action_package) } = {"p1", "p2"}

-----------------------------------------------------------------------------
\* C27.  Nothing discovered in a package the catalog holds.

\* The last import was committed for a name the catalog held, and no entry
\* of its enumeration got past the action-level whitelist.
EmptyDiscovery == Committed /\ PreExisting /\ AcceptedNames = {}

\* The row without its enabled flag.
WithoutEnabled(row) == [f \in DOMAIN row \ {"enabled"} |-> row[f]]

\* C27: an import that discovers no action in a package the catalog holds is
\* committed, not refused: the row of the package gets the new directory,
\* hash and environment and keeps its id; no action row is inserted and none
\* has a field other than enabled changed; with pruning every action the
\* package had is disabled, without pruning the actions are as they were.
\* (What pruning does to the actions of other packages is not spoken of
\* here.)
C27_EmptyEnumeration ==
    EmptyDiscovery =>
        /\ Len(action_package) = Len(pre.action_package)
        /\ \A p \in PrePackages :
              /\ [last.action_package EXCEPT !.id = p.id] \in Rows(action_package)
              /\ \A i \in DOMAIN pre.action :
                    pre.action[i].action_package_id = p.id =>
                        action[i].enabled = (IF last.disable_not_imported THEN FALSE
                                             ELSE pre.action[i].enabled)
        /\ Len(action) = Len(pre.action)
        /\ \A i \in DOMAIN pre.action : WithoutEnabled(action[i]) = WithoutEnabled(pre.action[i])
        /\ ~last.disable_not_imported => action = pre.action

\* A package with two enabled actions was imported again from another
\* directory, with pruning and an empty enumeration: both are disabled.
C27_Witness ==
    /\ EmptyDiscovery
    /\ last.actions_list_result = <<>>
    /\ last.disable_not_imported
    /\ \E p \in PrePackages :
          /\ p.directory # last.action_package.directory
          /\ Cardinality({ i \in DOMAIN pre.action :
                             pre.action[i].action_package_id = p.id
                             /\ pre.action[i].enabled }) = 2
          /\ \A i \in DOMAIN action : action[i].action_package_id = p.id => ~action[i].enabled

-----------------------------------------------------------------------------
\* C28.  Termination.

\* The ends of an import.
EndedCommitted ==
    trace.status = "returned" /\ last.outcome = "committed" /\ Called("get_db")
EndedSkipped ==
    trace.status = "skipped" /\ last.outcome = "skipped" /\ Db = pre /\ ~Called("get_db")
EndedValidationError ==
    /\ trace.status = "raised" /\ last.outcome = "raised"
    /\ trace.raised = "ActionServerValidationError"
    /\ Db = pre /\ ~Called("get_db")
EndedOtherError ==
    /\ trace.status = "raised" /\ last.outcome = "raised"
    /\ trace.raised \in {"ActionPackageError", "RuntimeError", "KeyError", "HookError"}
    /\ Db = pre /\ ~Called("get_db")

\* The last import ended in one of the four ways, and in one only.
OneOutcome ==
    Cardinality({ k \in 1..4 :
                    CASE k = 1 -> EndedCommitted
                      [] k = 2 -> EndedSkipped
                      [] k = 3 -> EndedValidationError
                      [] k = 4 -> EndedOtherError }) = 1

\* No collaborator was called twice by the last import.
NoRetry ==
    \A i, j \in DOMAIN trace.calls : trace.calls[i] = trace.calls[j] => i = j

\* The command imported each directory of its list at most once, in order.
EachDirectoryOnce ==
    /\ run.imported <= Len(run.dir)
    /\ Len(run.outcomes) <= Len(run.dir)
    /\ Len(run.outcomes) \in {run.imported, run.imported + 1}
    /\ run.state = "importing" => Len(run.outcomes) = run.imported /\ run.imported < Len(run.dir)

\* The batch driver has ended: it returned 0 (after which start serves) or 1,
\* or an exception left it.
DriverEnded ==
    \/ run.state = "returned" /\ run.code \in {0, 1} /\ run.raised = ""
    \/ run.state = "serving" /\ run.code = 0 /\ run.imported = Len(run.dir)
    \/ run.state = "raised" /\ run.raised # ""

\* C28: every import ends in exactly one of committed, skipped by the
\* whitelist, validation error and runtime or package error, having called no
\* collaborator twice; the batch driver imports each directory of its list
\* at most once; and a driver that has started ends, with return code 0 or
\* 1 or with an exception.
C28_Termination ==
    /\ [](trace.status # "none" => (OneOutcome /\ NoRetry))
    /\ [](EachDirectoryOnce)
    /\ [](run.state = "importing" => <>DriverEnded)

\* A command import of three directories imported all three and returned 0,
\* one of them skipped by the whitelist.
C28_Witness ==
    /\ run.state = "returned"
    /\ run.code = 0
    /\ Len(run.dir) = 3
    /\ run.imported = 3
    /\ \E i \in DOMAIN run.outcomes : run.outcomes[i] = "skipped"
    /\ \E i \in DOMAIN run.outcomes : run.outcomes[i] = "returned"

-----------------------------------------------------------------------------
\* C29.  One importer per datadir.

\* Process p is between acquiring the mutex and releasing it.
InWindow(p) == process[p].acquired /\ process[p].releases = 0

\* Process p gave up waiting for the mutex.
TimedOut(p) == process[p].pc = "done" /\ ~process[p].acquired

\* The step opens the catalog for a command or makes an import: the reads
\* and writes of the catalog by import and start.
CatalogStep ==
    \/ action_package' # action_package
    \/ action' # action
    \/ n_imports' # n_imports
    \/ run' # run

\* C29: at most one process at a time is between acquiring and releasing the
\* mutex of the datadir, and it is the one the mutex names; every step that
\* opens, reads or writes the catalog for import or start is a step of the
\* process that holds the mutex, made after it entered the try statement; a
\* process that timed out waiting returned 1, never opened the catalog, and
\* the step in which it gave up left the catalog as it was.
C29_SingleImporter ==
    /\ [](/\ Cardinality({ p \in Pids : InWindow(p) }) <= 1
          /\ \A p \in Pids : InWindow(p) <=> mutex = p
          /\ \A p \in Pids :
                TimedOut(p) => (process[p].code = 1 /\ ~process[p].db_opened
                                /\ process[p].releases = 0))
    /\ [][/\ CatalogStep =>
                /\ \E p \in Pids : /\ mutex = p
                                  /\ InWindow(p)
                                  /\ process[p].pc \in {"try", "command"}
                /\ \A p \in Pids : process'[p] # process[p] => mutex = p
          /\ \A p \in Pids :
                (process[p].pc = "acquiring" /\ process'[p].pc = "done") =>
                    (~CatalogStep /\ process'[p].code = 1)]_vars

\* One process is serving, having imported an action, while the other gave
\* up after waiting twice and returned 1.
C29_Witness ==
    \E p, q \in Pids :
        /\ InWindow(p)
        /\ process[p].pc = "serving"
        /\ process[p].db_opened
        /\ action # <<>>
        /\ TimedOut(q)
        /\ process[q].waits = 2
        /\ process[q].code = 1

-----------------------------------------------------------------------------
\* C30.  The release of the mutex.

\* Process p got the mutex and its command has ended.
EndedAfterAcquiring(p) == process[p].acquired /\ process[p].pc = "done"

\* C30: a process that acquired the mutex of the datadir releases it exactly
\* once however its command ends: no process calls release_mutex twice, and
\* once the command has ended, by a return code or by an exception,
\* release_mutex was called once and the mutex is no longer held by the
\* process, so that a process waiting for it can acquire it.
C30_ReleaseOnEveryPath ==
    \A p \in Pids :
        /\ process[p].releases <= 1
        /\ EndedAfterAcquiring(p) => (process[p].releases = 1 /\ mutex # p)

-----------------------------------------------------------------------------
\* The packages the imports of the current command resolved.
SyncedNames == { run.accepted[i].name : i \in DOMAIN run.accepted }

\* start with actions-sync true has imported several directories, each of
\* another package that was in the catalog when the command began, every
\* import returned, and the server is about to start.
SyncedExistingPackages ==
    /\ run.command = "start"
    /\ run.actions_sync
    /\ run.state = "serving"
    /\ Len(run.dir) > 1
    /\ Len(run.accepted) = Len(run.dir)
    /\ Cardinality(SyncedNames) = Len(run.dir)
    /\ \A name \in SyncedNames :
        \E q \in Rows(run.found.action_package) : q.name = name

\* The catalog holds an enabled action of this name owned by a package of
\* this name.
EnabledIn(name, action_name) ==
    \E q \in Rows(action_package), r \in Rows(action) :
        /\ q.name = name
        /\ r.action_package_id = q.id
        /\ r.name = action_name
        /\ r.enabled

\* C31: multi-package sync keeps what it found.  After one successful start
\* synchronization (pruning on) over several directories whose packages all
\* were in the catalog already, every action discovered and accepted for any
\* of those packages during the command is enabled when the batch finishes,
\* whatever the order of the directories.
C31_SyncKeepsFound ==
    SyncedExistingPackages =>
        \A i \in DOMAIN run.accepted :
            \A action_name \in run.accepted[i].actions :
                EnabledIn(run.accepted[i].name, action_name)

-----------------------------------------------------------------------------
\* The action rows the last import wrote under its package: those it
\* inserted, and those of its package whose names it rediscovered.
WrittenActions ==
    { r \in Rows(action) :
        \/ r.id \notin Ids(pre.action)
        \/ \E q \in PreActions : q.id = r.id /\ q.name \in AcceptedNames }

\* C32: referential integrity.  In every reachable catalog state each action
\* row's action_package_id is the id of a package row of the catalog; the
\* actions inserted or updated by a committed re-import of an existing
\* package carry that package's id, and no action carries the fresh id
\* generated for that import.
C32_ReferentialIntegrity ==
    /\ \A r \in Rows(action) : r.action_package_id \in Ids(action_package)
    /\ (Committed /\ PreExisting) =>
        /\ \A r \in WrittenActions : r.action_package_id = PrePackage.id
        /\ \A r \in Rows(action) : r.action_package_id # last.action_package.id

\* A committed re-import of an existing package updated one of its actions
\* and inserted another, both under the existing package's id, the fresh id
\* being another one.
C32_Witness ==
    /\ Committed /\ PreExisting
    /\ last.action_package.id # PrePackage.id
    /\ \E r \in Rows(action) :
        /\ r.id \notin Ids(pre.action)
        /\ r.action_package_id = PrePackage.id
    /\ \E r \in Rows(action), q \in PreActions :
        /\ q.id = r.id
        /\ q.name \in AcceptedNames
        /\ r.action_package_id = PrePackage.id

-----------------------------------------------------------------------------
\* The current command is start with actions-sync true.
StartWithSync == run.command = "start" /\ run.actions_sync

\* The server has been started by the current command.
ServerStarted == run.state = "serving"

\* The synchronization of the current command has failed: an import of it
\* ended by an error.
SyncFailed == \E i \in DOMAIN run.outcomes : ~EndedWell(run.outcomes[i])

\* C33: server start is gated on the sync.  In start with actions-sync true
\* the server is started only after the import of every given directory has
\* completed and _import_actions has returned 0; if the sync returns a
\* non-zero code or raises, the command ends with that code or that
\* exception and the server is not started.
C33_StartGated ==
    StartWithSync =>
        /\ ServerStarted =>
            /\ Len(run.outcomes) = Len(run.dir)
            /\ run.imported = Len(run.dir)
            /\ \A i \in DOMAIN run.outcomes : EndedWell(run.outcomes[i])
            /\ run.code = 0
        /\ SyncFailed =>
            /\ ~ServerStarted
            /\ run.state \in {"returned", "raised"}
            /\ run.state = "returned" => run.code # 0
            /\ run.state = "raised" => run.raised # ""

\* start with actions-sync true has imported three directories, the last of
\* them into the catalog, and started the server.
C33_Witness ==
    /\ StartWithSync
    /\ ServerStarted
    /\ Len(run.dir) = 3
    /\ Len(run.outcomes) = 3
    /\ \A i \in DOMAIN run.outcomes : EndedWell(run.outcomes[i])
    /\ last.outcome = "committed"
    /\ action # <<>>

====
